---------------------------- MODULE Spec2Model ----------------------------
(***************************************************************************)
(* The scoring and recommendation pipeline of the recruiting platform:     *)
(* NLPAnalyzer.calculate_job_match_score / _skills_match                   *)
(* (src/nlp_analyzer.py) and AssessmentEngine (src/assessment_engine.py).  *)
(*                                                                         *)
(* Numbers.  Python floats are modelled as exact rationals on a fixed      *)
(* grid: every score is an integer number of ticks, one tick being 1/300   *)
(* of a point, so that 100 points = 30000 ticks and one hundredth of a     *)
(* point = 3 ticks.  round(x, 2) is rounding to the nearest multiple of 3  *)
(* ticks.  Binary representation error of a float is not modelled: where   *)
(* the exact value is a decimal tie (x.xx5) the float lies a little to one *)
(* side of it and Python rounds to that side, which may be either; the     *)
(* model rounds such a tie to even.  The properties below are stated so    *)
(* that they do not depend on the side a tie goes to.                      *)
(*                                                                         *)
(* Strings are tuples of one-character strings, so that lower(), the       *)
(* substring test and split() are computed and not assumed.                *)
(***************************************************************************)
EXTENDS Integers, Sequences, FiniteSets, TLC

VARIABLES
    fn,                  \* the pure function under call ("none" in Spec)
    args,                \* its arguments
    ret,                 \* its return value, meaningful once returned
    returned,            \* whether the call of fn has returned
    candidate_data,      \* conduct_comprehensive_assessment: 1st argument
    job_description,     \* 2nd argument
    interview_responses, \* 3rd argument
    pc,                  \* position inside conduct_comprehensive_assessment
    assessment_report,   \* the local report being filled in
    overall_score,       \* the local overall_score (line 96)
    result,              \* the value returned to the caller
    exc,                 \* the exception caught at line 139, or "none"
    engine,              \* the fields of the AssessmentEngine object (self)
    hash_seed,           \* the string hash seed of the Python process
    utcnow,              \* the clock read by datetime.utcnow()
    db                   \* the rows of the database the interview routes use

vars == <<fn, args, ret, returned, candidate_data, job_description,
          interview_responses, pc, assessment_report, overall_score,
          result, exc, engine, hash_seed, utcnow, db>>

unitVars == <<fn, args, ret, returned>>
assessmentVars == <<candidate_data, job_description, interview_responses, pc,
                    assessment_report, overall_score, result, exc,
                    engine, hash_seed>>
engineVars == <<assessmentVars, utcnow, db>>

-----------------------------------------------------------------------------
(* Bounds of the model *)

MaxCandidateSkills == 2
MaxRequiredSkills == 2
MaxRisks == 3
MaxResponses == 2
MaxGaps == 2
MaxSwitches == 2
MaxYears == 27
MaxTitles == 2
MaxInterview == 3
MaxAdded == 2
MaxQuestions == 2
MaxAnswers == 3
MaxClock == 3
ManySkillsCount == 101

-----------------------------------------------------------------------------
(* Numbers *)

TicksPerPoint == 3 * 100
Pts(n) == n * TicksPerPoint

Min(a, b) == IF a <= b THEN a ELSE b
Max(a, b) == IF a >= b THEN a ELSE b

\* The integer nearest to a / b (b > 0), ties to the even one.
RoundHalfEven(a, b) ==
    LET f == a \div b
        r == a - f * b
    IN  IF 2 * r < b THEN f
        ELSE IF 2 * r > b THEN f + 1
        ELSE IF f % 2 = 0 THEN f ELSE f + 1

\* round(x, 2) for x = p / q ticks (q > 0): the nearest hundredth of a point.
Round2(p, q) == 3 * RoundHalfEven(p, 3 * q)

-----------------------------------------------------------------------------
(* Strings *)

UpperToLower ==
    [c \in {"A","B","C","D","E","F","G","H","I","J","K","L","M","N","O","P",
            "Q","R","S","T","U","V","W","X","Y","Z"} |->
       CASE c = "A" -> "a" [] c = "B" -> "b" [] c = "C" -> "c" [] c = "D" -> "d"
         [] c = "E" -> "e" [] c = "F" -> "f" [] c = "G" -> "g" [] c = "H" -> "h"
         [] c = "I" -> "i" [] c = "J" -> "j" [] c = "K" -> "k" [] c = "L" -> "l"
         [] c = "M" -> "m" [] c = "N" -> "n" [] c = "O" -> "o" [] c = "P" -> "p"
         [] c = "Q" -> "q" [] c = "R" -> "r" [] c = "S" -> "s" [] c = "T" -> "t"
         [] c = "U" -> "u" [] c = "V" -> "v" [] c = "W" -> "w" [] c = "X" -> "x"
         [] c = "Y" -> "y" [] c = "Z" -> "z"]

\* str.lower()
Lower(s) ==
    [i \in 1..Len(s) |->
        IF s[i] \in DOMAIN UpperToLower THEN UpperToLower[s[i]] ELSE s[i]]

\* a in b, for two strings
IsSubstring(a, b) ==
    /\ Len(a) <= Len(b)
    /\ \E i \in 0..(Len(b) - Len(a)) : SubSeq(b, i + 1, i + Len(a)) = a

\* set(l)
Elems(l) == {l[i] : i \in DOMAIN l}

\* x in l, for a list l
InList(x, l) == \E i \in DOMAIN l : l[i] = x

\* The skill names of the synonym table and of the samples
SKILL ==
    [empty |-> << >>,
     js |-> <<"j","s">>,
     ts |-> <<"t","s">>,
     py |-> <<"p","y">>,
     PY |-> <<"P","Y">>,
     java |-> <<"j","a","v","a">>,
     javascript |-> <<"j","a","v","a","s","c","r","i","p","t">>,
     typescript |-> <<"t","y","p","e","s","c","r","i","p","t">>,
     python |-> <<"p","y","t","h","o","n">>,
     node_js |-> <<"n","o","d","e",".","j","s">>,
     nodejs |-> <<"n","o","d","e","j","s">>,
     postgresql |-> <<"p","o","s","t","g","r","e","s","q","l">>,
     postgres |-> <<"p","o","s","t","g","r","e","s">>,
     mongodb |-> <<"m","o","n","g","o","d","b">>,
     mongo |-> <<"m","o","n","g","o">>,
     kubernetes |-> <<"k","u","b","e","r","n","e","t","e","s">>,
     k8s |-> <<"k","8","s">>,
     docker |-> <<"d","o","c","k","e","r">>,
     containerization |->  <<"c","o","n","t","a","i","n","e","r","i","z",
         "a","t","i","o","n">>,
     aws |-> <<"a","w","s">>,
     amazon_web_services |->  <<"a","m","a","z","o","n"," ","w","e","b"," ",
         "s","e","r","v","i","c","e","s">>,
     gcp |-> <<"g","c","p">>,
     google_cloud |-> <<"g","o","o","g","l","e"," ","c","l","o","u","d">>,
     google_cloud_platform |-> <<"g","o","o","g","l","e"," ","c","l","o",
         "u","d"," ","p","l","a","t","f","o","r","m">>]

-----------------------------------------------------------------------------
(* NLPAnalyzer: skill matching *)

\* The synonym table of _skills_match.
variations ==
    (SKILL.javascript :> <<SKILL.js, SKILL.node_js, SKILL.nodejs>>) @@
    (SKILL.typescript :> <<SKILL.ts>>) @@
    (SKILL.python :> <<SKILL.py>>) @@
    (SKILL.postgresql :> <<SKILL.postgres>>) @@
    (SKILL.mongodb :> <<SKILL.mongo>>) @@
    (SKILL.kubernetes :> <<SKILL.k8s>>) @@
    (SKILL.docker :> <<SKILL.containerization>>) @@
    (SKILL.aws :> <<SKILL.amazon_web_services>>) @@
    (SKILL.gcp :> <<SKILL.google_cloud_platform, SKILL.google_cloud>>)

\* A slip of the table lookup: the alias is looked up for skill2 only.
SkillsMatchOneWay(skill1, skill2) ==
    IF skill1 = skill2 THEN TRUE
    ELSE IF IsSubstring(skill1, skill2) \/ IsSubstring(skill2, skill1) THEN TRUE
    ELSE \E main_skill \in DOMAIN variations :
            skill1 = main_skill /\ InList(skill2, variations[main_skill])

_skills_match(skill1, skill2) ==
    IF skill1 = skill2 THEN TRUE
    ELSE IF IsSubstring(skill1, skill2) \/ IsSubstring(skill2, skill1) THEN TRUE
    ELSE \E main_skill \in DOMAIN variations :
            \/ skill1 = main_skill /\ InList(skill2, variations[main_skill])
            \/ skill2 = main_skill /\ InList(skill1, variations[main_skill])

\* A slip of the score: the share is taken of the candidate's skills.
MatchScoreOverCandidate(candidate_skills, job_requirements) ==
    IF job_requirements = << >>
    THEN [match_score |-> 0, matched_skills |-> << >>,
          missing_skills |-> job_requirements]
    ELSE
      LET candidate_skills_lower ==
              [i \in DOMAIN candidate_skills |-> Lower(candidate_skills[i])]
          IsMatched(req) ==
              \E i \in DOMAIN candidate_skills_lower :
                  _skills_match(Lower(req), candidate_skills_lower[i])
          IsMissing(req) == ~IsMatched(req)
          matched_skills == SelectSeq(job_requirements, IsMatched)
          missing_skills == SelectSeq(job_requirements, IsMissing)
      IN  [match_score |->
               IF candidate_skills = << >> THEN 0
               ELSE Round2(Pts(100) * Len(matched_skills), Len(candidate_skills)),
           matched_skills |-> matched_skills,
           missing_skills |-> missing_skills,
           total_required |-> Len(job_requirements),
           total_matched |-> Len(matched_skills)]

calculate_job_match_score(candidate_skills, job_requirements) ==
    IF job_requirements = << >>
    THEN [match_score |-> 0, matched_skills |-> << >>,
          missing_skills |-> job_requirements]
    ELSE
      LET candidate_skills_lower ==
              [i \in DOMAIN candidate_skills |-> Lower(candidate_skills[i])]
          IsMatched(req) ==
              \E i \in DOMAIN candidate_skills_lower :
                  _skills_match(Lower(req), candidate_skills_lower[i])
          IsMissing(req) == ~IsMatched(req)
          matched_skills == SelectSeq(job_requirements, IsMatched)
          missing_skills == SelectSeq(job_requirements, IsMissing)
      IN  [match_score |->
               Round2(Pts(100) * Len(matched_skills), Len(job_requirements)),
           matched_skills |-> matched_skills,
           missing_skills |-> missing_skills,
           total_required |-> Len(job_requirements),
           total_matched |-> Len(matched_skills)]

-----------------------------------------------------------------------------
(* Python values *)

\* dict.get(key, default)
Get(d, key, default) == IF key \in DOMAIN d THEN d[key] ELSE default

\* A bare number where a dict may also stand (a component score).
Num(n) == [num |-> n]
IsNum(x) == DOMAIN x = {"num"}

\* isinstance(x, dict), among the values a component score may be
IsDict(x) == ~IsNum(x)

RECURSIVE SumSeq(_)
SumSeq(s) == IF s = << >> THEN 0 ELSE Head(s) + SumSeq(Tail(s))

\* The keys of d among those of the list order, in that order.
KeysIn(order, d) ==
    LET Present(k) == k \in DOMAIN d IN SelectSeq(order, Present)

-----------------------------------------------------------------------------
(* Texts read by the engine *)

\* The words the engine searches for
WORD ==
    [lead |-> <<"l","e","a","d">>,
     manager |-> <<"m","a","n","a","g","e","r">>,
     years |-> <<"y","e","a","r","s">>,
     years_requirement |->  <<" ","y","e","a","r","s"," ","(","r","e","q",
         "u","i","r","e","m","e", "n","t",":"," ">>,
     team |-> <<"t","e","a","m">>,
     collaborate |-> <<"c","o","l","l","a","b","o","r","a","t","e">>,
     mentor |-> <<"m","e","n","t","o","r">>,
     adapt |-> <<"a","d","a","p","t">>,
     change |-> <<"c","h","a","n","g","e">>,
     transform |-> <<"t","r","a","n","s","f","o","r","m">>,
     collaborative |-> <<"c","o","l","l","a","b","o","r","a","t","i","v",
         "e">>,
     adaptable |-> <<"a","d","a","p","t","a","b","l","e">>,
     flexible |-> <<"f","l","e","x","i","b","l","e">>]

\* Sample job titles, responsibilities, feedback
TEXT ==
    [software_engineer |->  <<"s","o","f","t","w","a","r","e"," ","e","n",
         "g","i","n","e","e","r">>,
     Senior_Software_Engineer |->  <<"S","e","n","i","o","r"," ","S","o",
         "f","t","w","a","r","e"," ","E", "n","g","i","n","e","e","r">>,
     Lead_Software_Engineer |->  <<"L","e","a","d"," ","S","o","f","t","w",
         "a","r","e"," ","E","n","g", "i","n","e","e","r">>,
     Engineering_Manager |->  <<"E","n","g","i","n","e","e","r","i","n","g",
         " ","M","a","n","a","g", "e","r">>,
     blank |-> <<" ">>,
     mentored_team |->  <<"M","e","n","t","o","r","e","d"," ","a"," ","t",
         "e","a","m"," ","o", "f"," ","f","i","v","e">>,
     wrote_reports |->  <<"W","r","o","t","e"," ","w","e","e","k","l","y",
         " ","r","e","p","o", "r","t","s">>,
     feedback_team |->  <<"C","o","l","l","a","b","o","r","a","t","i","v",
         "e"," ","a","n","d", " ","f","l","e","x","i","b","l","e"," ","t",
         "e","a","m"," ","p","l", "a","y","e","r">>,
     feedback_plain |->  <<"A","n","s","w","e","r","s"," ","w","e","r","e",
         " ","s","h","o","r", "t">>,
     email |-> <<"a","@","b",".","c","o">>]

\* str.split(): the maximal runs of non-blank characters
RECURSIVE SplitFrom(_, _, _)
SplitFrom(s, i, word) ==
    IF i > Len(s)
    THEN IF word = << >> THEN << >> ELSE <<word>>
    ELSE IF s[i] = " "
         THEN (IF word = << >> THEN << >> ELSE <<word>>)
                  \o SplitFrom(s, i + 1, << >>)
         ELSE SplitFrom(s, i + 1, Append(word, s[i]))

Split(s) == SplitFrom(s, 1, << >>)

Digits == <<"0","1","2","3","4","5","6","7","8","9">>

\* str(n) for an int n >= 0
RECURSIVE NatToStr(_)
NatToStr(n) ==
    IF n < 10 THEN <<Digits[n + 1]>>
    ELSE Append(NatToStr(n \div 10), Digits[(n % 10) + 1])

\* str(n) for an int
IntToStr(n) == IF n < 0 THEN <<"-">> \o NatToStr(-n) ELSE NatToStr(n)

IsDigit(c) == \E d \in DOMAIN Digits : Digits[d] = c
DigitValue(c) == (CHOOSE d \in DOMAIN Digits : Digits[d] = c) - 1

RECURSIVE DigitsValue(_)
DigitsValue(ds) ==
    IF ds = << >> THEN 0
    ELSE 10 * DigitsValue(SubSeq(ds, 1, Len(ds) - 1)) + DigitValue(ds[Len(ds)])

\* int(token): the digits of token after an optional sign
IntDigits(token) ==
    IF token # << >> /\ token[1] \in {"-", "+"} THEN Tail(token) ELSE token

\* Whether int(token) raises ValueError
IntRaises(token) ==
    \/ IntDigits(token) = << >>
    \/ \E i \in DOMAIN IntDigits(token) : ~IsDigit(IntDigits(token)[i])

\* int(token), where it does not raise
IntOf(token) ==
    IF token[1] = "-" THEN -DigitsValue(IntDigits(token))
    ELSE DigitsValue(IntDigits(token))

-----------------------------------------------------------------------------
(* Python values of the inputs *)

NoneValue == [py |-> "None"]
IsNone(x) == "py" \in DOMAIN x /\ x.py = "None"

EmptyDict == << >>

\* A number of years: an int or a float, held in tenths of a year.
PyInt(n) == [py |-> "int", tenths |-> 10 * n]
PyFloat(tenths) == [py |-> "float", tenths |-> tenths]

\* str(x) for a number of years: "16" for an int, "16.0" and "15.5" for floats
YearsToStr(x) ==
    IF x.py = "int" THEN IntToStr(x.tenths \div 10)
    ELSE LET a == IF x.tenths < 0 THEN -x.tenths ELSE x.tenths
         IN  (IF x.tenths < 0 THEN <<"-">> ELSE << >>)
               \o NatToStr(a \div 10) \o <<".">> \o NatToStr(a % 10)

\* A list or None where a list is expected
PyList(items) == [py |-> "list", items |-> items]

\* A text given by what the engine reads of it: len(), the number of
\* newlines, and whether a bullet character occurs.
EmptyText == [length |-> 0, newlines |-> 0, bullets |-> FALSE]

\* bool(x) of a list or string
Truthy(l) == l # << >>

Take(n, l) == SubSeq(l, 1, Min(n, Len(l)))

RECURSIVE Concat(_)
Concat(ss) == IF ss = << >> THEN << >> ELSE Head(ss) \o Concat(Tail(ss))

RECURSIVE SumLens(_, _)
SumLens(d, keys) ==
    IF keys = {} THEN 0
    ELSE LET k == CHOOSE k \in keys : TRUE
         IN  Len(d[k]) + SumLens(d, keys \ {k})

RECURSIVE MaxSeq(_)
MaxSeq(s) == IF Len(s) = 1 THEN s[1] ELSE Max(s[1], MaxSeq(Tail(s)))

-----------------------------------------------------------------------------
(* AssessmentEngine: configuration (__init__) *)

\* assessment_weights, in hundredths
\* __init__ (lines 17-44): the fields of a new engine, weights and factors
\* in hundredths
AssessmentEngine ==
    [assessment_weights |->
        [resume_analysis |-> 30, skill_match |-> 25,
         interview_performance |-> 35, experience_relevance |-> 10],
     score_thresholds |->
        [strong_hire |-> Pts(85), hire |-> Pts(70), maybe |-> Pts(55),
         no_hire |-> Pts(0)],
     cultural_fit_factors |->
        [communication_style |-> 25, collaboration_indicators |-> 25,
         adaptability_signals |-> 20, leadership_potential |-> 15,
         learning_agility |-> 15]]

\* self.assessment_weights
assessment_weights == engine.assessment_weights

\* The iteration order of assessment_weights.items()
assessment_weights_keys ==
    <<"resume_analysis", "skill_match", "interview_performance",
      "experience_relevance">>

\* self.score_thresholds
score_thresholds == engine.score_thresholds

-----------------------------------------------------------------------------
(* AssessmentEngine: the component scorers *)

\* _generate_resume_analysis: the three phrases that are joined
_generate_resume_analysis(score_components) ==
    << IF score_components.completeness >= Pts(80)
         THEN "Resume contains all essential sections"
       ELSE IF score_components.completeness >= Pts(60)
         THEN "Resume is mostly complete with minor gaps"
       ELSE "Resume is missing key sections",
       IF score_components.skill_diversity >= Pts(80)
         THEN "demonstrates diverse technical competencies"
       ELSE IF score_components.skill_diversity >= Pts(60)
         THEN "shows adequate technical skills"
       ELSE "has limited technical skill representation",
       IF score_components.experience_depth >= Pts(80)
         THEN "and substantial professional experience"
       ELSE IF score_components.experience_depth >= Pts(60)
         THEN "and moderate professional experience"
       ELSE "but limited professional experience" >>

education_scores ==
    [doctorate |-> Pts(100), masters |-> Pts(85), bachelors |-> Pts(70),
     associates |-> Pts(55), high_school |-> Pts(40)]

\* Mutation of ResumeQualityRaises: the experience is read with
\* candidate_data['extracted_experience'], which raises when the key is
\* missing.
ResumeQualityRaisesOnMissingKey(cd) ==
    \/ "extracted_experience" \notin DOMAIN cd
    \/ IsNone(Get(cd.extracted_experience, "total_years", PyInt(0)))

\* total_years * 10 raises TypeError when total_years is None (line 189).
ResumeQualityRaises(cd) ==
    IsNone(Get(Get(cd, "extracted_experience", EmptyDict), "total_years", PyInt(0)))

_assess_resume_quality(cd) ==
    LET resume_text == Get(cd, "resume_text", EmptyText)
        extracted_skills == Get(cd, "extracted_skills", EmptyDict)
        extracted_experience == Get(cd, "extracted_experience", EmptyDict)
        extracted_education == Get(cd, "extracted_education", EmptyDict)
        sections_present ==
            (IF Truthy(Get(cd, "email", << >>)) THEN 1 ELSE 0)
            + (IF Truthy(Get(extracted_experience, "job_titles", << >>)) THEN 1 ELSE 0)
            + (IF Truthy(Get(extracted_skills, "all_skills", << >>)) THEN 1 ELSE 0)
            + (IF Truthy(Get(extracted_education, "degrees", << >>)) THEN 1 ELSE 0)
        all_skills == Get(extracted_skills, "all_skills", << >>)
        technical_skills == Get(extracted_skills, "technical_skills", EmptyDict)
        skill_categories ==
            Cardinality({c \in DOMAIN technical_skills : Truthy(technical_skills[c])})
        total_years == Get(extracted_experience, "total_years", PyInt(0))
        job_titles == Get(extracted_experience, "job_titles", << >>)
        companies == Get(extracted_experience, "companies", << >>)
        education_level == Get(extracted_education, "education_level", "high_school")
        presentation_score ==
            Pts(70)
            + (IF resume_text.length > 500 THEN Pts(10) ELSE 0)
            + (IF resume_text.newlines + 1 > 20 THEN Pts(10) ELSE 0)
            + (IF resume_text.bullets THEN Pts(10) ELSE 0)
        score_components ==
            [completeness |-> (sections_present * Pts(100)) \div 4,
             skill_diversity |->
                 Min(Pts(100), Len(all_skills) * Pts(5) + skill_categories * Pts(10)),
             experience_depth |->
                 Min(Pts(100), total_years.tenths * Pts(1)
                                  + Len(job_titles) * Pts(5)
                                  + Len(companies) * Pts(3)),
             education_relevance |-> Get(education_scores, education_level, Pts(40)),
             presentation_quality |-> Min(Pts(100), presentation_score)]
    IN  [overall_score |->
             Round2(score_components.completeness * 25
                    + score_components.skill_diversity * 25
                    + score_components.experience_depth * 25
                    + score_components.education_relevance * 15
                    + score_components.presentation_quality * 10, 100),
         component_scores |-> score_components,
         analysis |-> _generate_resume_analysis(score_components)]

\* breadth * 0.4 + depth * 0.6; 50 when either argument is empty
_assess_skill_depth(technical_skills, required_skills) ==
    IF technical_skills = EmptyDict \/ required_skills = << >> THEN Pts(50)
    ELSE
      LET total_categories == Cardinality(DOMAIN technical_skills)
          populated_categories ==
              Cardinality({c \in DOMAIN technical_skills :
                              Truthy(technical_skills[c])})
          total_skills == SumLens(technical_skills, DOMAIN technical_skills)
          depth_score == Min(Pts(100), total_skills * Pts(5))
      IN  (populated_categories * Pts(100) * 4) \div (total_categories * 10)
          + (depth_score * 6) \div 10

_assess_skill_match(cd, jd) ==
    LET candidate_skills ==
            Get(Get(cd, "extracted_skills", EmptyDict), "all_skills", << >>)
        required_skills == Get(jd, "required_skills", << >>)
        preferred_skills == Get(jd, "preferred_skills", << >>)
        required_match == calculate_job_match_score(candidate_skills, required_skills)
        preferred_match == calculate_job_match_score(candidate_skills, preferred_skills)
        technical_skills ==
            Get(Get(cd, "extracted_skills", EmptyDict), "technical_skills", EmptyDict)
        skill_depth_score == _assess_skill_depth(technical_skills, required_skills)
        NotAsked(skill) == ~InList(skill, required_skills \o preferred_skills)
    IN  \* (required * 0.7 + preferred * 0.3) * 0.8 + depth * 0.2
        [overall_score |->
             Round2(required_match.match_score * 56
                    + preferred_match.match_score * 24
                    + skill_depth_score * 20, 100),
         required_skills_match |-> required_match,
         preferred_skills_match |-> preferred_match,
         skill_depth_score |-> skill_depth_score,
         analysis |->
             [strong_matches |-> Take(5, required_match.matched_skills),
              missing_critical |-> Take(5, required_match.missing_skills),
              additional_value |-> Take(5, SelectSeq(candidate_skills, NotAsked))]]

\* len(target_keywords) = 0 for a title of blanks only: ZeroDivisionError
RoleRelevanceRaises(job_titles, target_role) ==
    /\ Truthy(job_titles)
    /\ Truthy(target_role)
    /\ Split(Lower(target_role)) = << >>

_calculate_role_relevance(job_titles, target_role) ==
    IF ~Truthy(job_titles) \/ ~Truthy(target_role) THEN Pts(50)
    ELSE
      LET target_keywords == Split(Lower(target_role))
          relevance_scores ==
              [i \in DOMAIN job_titles |->
                 (Cardinality(Elems(target_keywords)
                                \cap Elems(Split(Lower(job_titles[i]))))
                    * Pts(100)) \div Len(target_keywords)]
      IN  MaxSeq(relevance_scores)

\* (min_years, max_years) by job level
level_requirements ==
    [entry |-> <<0, 2>>, junior |-> <<1, 3>>, mid |-> <<3, 7>>,
     senior |-> <<5, 12>>, executive |-> <<8, 20>>]

\* A slip: no floor of 70 above the range.
YearsAlignmentNoFloor(tenths, min_years, max_years) ==
    IF 10 * min_years <= tenths /\ tenths <= 10 * max_years THEN Pts(100)
    ELSE IF tenths > 10 * max_years
         THEN Pts(100) - ((tenths - 10 * max_years) * Pts(5)) \div 10
    ELSE IF min_years > 0 THEN (tenths * Pts(100)) \div (10 * min_years)
    ELSE 0

\* Lines 284-302: the years_alignment sub-score for years held in tenths
YearsAlignment(tenths, min_years, max_years) ==
    IF 10 * min_years <= tenths /\ tenths <= 10 * max_years THEN Pts(100)
    ELSE IF tenths > 10 * max_years
         THEN Max(Pts(70), Pts(100) - ((tenths - 10 * max_years) * Pts(5)) \div 10)
    ELSE IF min_years > 0 THEN (tenths * Pts(100)) \div (10 * min_years)
    ELSE 0

ExperienceRelevanceRaises(cd, jd) ==
    RoleRelevanceRaises(
        Get(Get(cd, "extracted_experience", EmptyDict), "job_titles", << >>),
        Get(jd, "title", << >>))

_assess_experience_relevance(cd, jd) ==
    LET experience_data == Get(cd, "extracted_experience", EmptyDict)
        job_title == Get(jd, "title", << >>)
        job_level == Get(jd, "experience_level", "mid")
        total_years == Get(experience_data, "total_years", PyInt(0))
        experience_level == Get(experience_data, "experience_level", "entry")
        range == Get(level_requirements, job_level, <<3, 7>>)
        min_years == range[1]
        max_years == range[2]
        job_titles == Get(experience_data, "job_titles", << >>)
        progression_data == Get(experience_data, "career_progression", EmptyDict)
        progression_score ==
            Pts(70)
            + (IF Get(progression_data, "shows_growth", FALSE) THEN Pts(20) ELSE 0)
            + (IF Get(progression_data, "leadership_progression", FALSE)
               THEN Pts(10) ELSE 0)
        leadership_score ==
            Pts(50)
            + (IF Get(progression_data, "leadership_progression", FALSE)
               THEN Pts(30) ELSE 0)
            + (IF \E i \in DOMAIN job_titles :
                     \/ IsSubstring(WORD.lead, Lower(job_titles[i]))
                     \/ IsSubstring(WORD.manager, Lower(job_titles[i]))
               THEN Pts(20) ELSE 0)
        score_components ==
            [years_alignment |-> YearsAlignment(total_years.tenths, min_years, max_years),
             role_relevance |-> _calculate_role_relevance(job_titles, job_title),
             industry_match |-> Pts(75),
             progression_quality |-> Min(Pts(100), progression_score),
             leadership_experience |-> Min(Pts(100), leadership_score)]
    IN  [overall_score |->
             Round2(score_components.years_alignment * 30
                    + score_components.role_relevance * 30
                    + score_components.progression_quality * 20
                    + score_components.leadership_experience * 10
                    + score_components.industry_match * 10, 100),
         component_scores |-> score_components,
         analysis |->
             [experience_level_match |-> experience_level = job_level,
              years_vs_requirement |->
                  YearsToStr(total_years) \o WORD.years_requirement
                    \o IntToStr(min_years) \o <<"-">> \o IntToStr(max_years)
                    \o <<")">>,
              career_highlights |-> Take(3, job_titles),
              progression_indicators |-> progression_data]]

\* response.get raises AttributeError on an element that is None (line 367).
InterviewPerformanceRaises(responses) ==
    \E i \in DOMAIN responses : IsNone(responses[i])

ResponseScore(response) ==
    Get(Get(response, "evaluation", EmptyDict), "overall_score", 0)

ResponseCategory(response) ==
    Get(Get(response, "question", EmptyDict), "category", "unknown")

\* A slip: the latest score in place of the mean.
LatestScore(scores) == scores[Len(scores)]

\* statistics.mean of the scores, exact where the scores are whole points
\* and there are at most six of them
MeanExact(scores) == SumSeq(scores) \div Len(scores)

\* The elements of a list in the order of first occurrence, as the keys
\* of a dict filled in that order
RECURSIVE FirstOccurrences(_)
FirstOccurrences(l) ==
    IF l = << >> THEN << >>
    ELSE LET init == FirstOccurrences(SubSeq(l, 1, Len(l) - 1))
         IN  IF l[Len(l)] \in Elems(init) THEN init
             ELSE Append(init, l[Len(l)])

\* sorted(items, key=lambda x: x[1], reverse=...) for a list of distinct
\* pairs: stable, so that items with equal keys keep their order, under
\* reverse=True as well.
SortedBy(items, reverse) ==
    LET Before(a, b) == IF reverse THEN a[2] > b[2] ELSE a[2] < b[2]
        Rank(i) ==
            Cardinality({j \in DOMAIN items :
                           \/ Before(items[j], items[i])
                           \/ ~Before(items[i], items[j]) /\ j < i}) + 1
    IN  [r \in DOMAIN items |->
           items[CHOOSE i \in DOMAIN items : Rank(i) = r]]

\* The strings the sampled evaluations list as strengths and as areas for
\* improvement, in the order in which a set of strings is iterated when
\* the hash seed of the process is 0; when it is 1 the order is the
\* reverse.  (Two of the orders a hash seed can give.)
string_order ==
    <<"Clear communication", "Deep knowledge", "Structured answers",
      "Concrete examples", "Good trade-offs", "Asks questions",
      "Brevity", "Depth">>

Reverse(l) == [i \in DOMAIN l |-> l[Len(l) + 1 - i]]

\* Mutation of ListOfSet: the order changes from one call to the next, as
\* if each call ran under a hash seed of its own.
ListOfSetPerCall(l) ==
    LET In(x) == x \in Elems(l)
    IN  SelectSeq(IF (hash_seed + utcnow) % 2 = 0
                  THEN string_order ELSE Reverse(string_order),
                  In)

\* list(set(l)): the distinct elements of l in the iteration order of a
\* set of strings, which is fixed by the hash seed of the process and is
\* not the order of l
ListOfSet(l) ==
    LET In(x) == x \in Elems(l)
    IN  SelectSeq(IF hash_seed = 0 THEN string_order ELSE Reverse(string_order),
                  In)

\* Lines 355-411; the pipeline calls it for a non-empty list only (line 91).
_assess_interview_performance(responses) ==
    IF ~Truthy(responses)
    THEN [overall_score |-> 0, analysis |-> "No interview data available"]
    ELSE
    LET all_scores == [i \in DOMAIN responses |-> ResponseScore(responses[i])]
        categories ==
            FirstOccurrences([i \in DOMAIN responses |->
                                ResponseCategory(responses[i])])
        OfCategory(c) ==
            LET Is(r) == ResponseCategory(r) = c
                rs == SelectSeq(responses, Is)
            IN  [i \in DOMAIN rs |-> ResponseScore(rs[i])]
        category_averages ==
            [c \in Elems(categories) |-> MeanExact(OfCategory(c))]
        items == [i \in DOMAIN categories |->
                    <<categories[i], category_averages[categories[i]]>>]
        strengths ==
            Concat([i \in DOMAIN responses |->
                      Get(Get(responses[i], "evaluation", EmptyDict),
                          "strengths", << >>)])
        weaknesses ==
            Concat([i \in DOMAIN responses |->
                      Get(Get(responses[i], "evaluation", EmptyDict),
                          "areas_for_improvement", << >>)])
    IN  [overall_score |-> Round2(SumSeq(all_scores), Len(all_scores)),
         category_scores |-> category_averages,
         total_questions |-> Len(responses),
         analysis |->
             [strongest_categories |-> Take(3, SortedBy(items, TRUE)),
              improvement_areas |-> Take(3, SortedBy(items, FALSE)),
              key_strengths |-> Take(5, ListOfSet(strengths)),
              development_needs |-> Take(5, ListOfSet(weaknesses))]]

AnyWordIn(words, text) == \E w \in words : IsSubstring(w, text)

\* resp.lower() raises AttributeError on a responsibility that is None.
CulturalFitRaises(cd, ir) ==
    LET responsibilities ==
            Get(Get(cd, "extracted_experience", EmptyDict), "responsibilities", << >>)
    IN  \E i \in DOMAIN responsibilities : IsNone(responsibilities[i])

\* Whether interview_responses is a non-empty list: `if interview_responses:`
HasResponses(ir) == ~IsNone(ir) /\ Truthy(ir.items)

_assess_cultural_fit(cd, ir) ==
    LET responses == IF HasResponses(ir) THEN ir.items ELSE << >>
        communication_scores ==
            [i \in DOMAIN responses |->
               Get(Get(Get(responses[i], "evaluation", EmptyDict),
                       "scores", EmptyDict), "communication_clarity", Pts(70))]
        Feedback(r) == Lower(Get(Get(r, "evaluation", EmptyDict), "feedback", << >>))
        TeamFeedback(r) == AnyWordIn({WORD.collaborative, WORD.team}, Feedback(r))
        AdaptFeedback(r) == AnyWordIn({WORD.adaptable, WORD.flexible}, Feedback(r))
        responsibilities ==
            Get(Get(cd, "extracted_experience", EmptyDict), "responsibilities", << >>)
        TeamResp(r) == AnyWordIn({WORD.team, WORD.collaborate, WORD.mentor}, Lower(r.s))
        AdaptResp(r) == AnyWordIn({WORD.adapt, WORD.change, WORD.transform}, Lower(r.s))
        FromFeedback(rs, text) == [i \in DOMAIN rs |-> text]
    IN  [overall_score |->
             IF responses # << >>
             THEN Round2(Pts(70) * Len(responses) + SumSeq(communication_scores),
                         2 * Len(responses))
             ELSE Round2(Pts(70), 1),
         analysis |->
             [communication_style |-> "professional",
              collaboration_indicators |->
                  FromFeedback(SelectSeq(responses, TeamFeedback),
                               "Shows teamwork orientation")
                  \o FromFeedback(SelectSeq(responsibilities, TeamResp),
                                  "Experience with team collaboration"),
              adaptability_signals |->
                  FromFeedback(SelectSeq(responses, AdaptFeedback),
                               "Demonstrates adaptability")
                  \o FromFeedback(SelectSeq(responsibilities, AdaptResp),
                                  "Experience with change management"),
              values_alignment |-> "moderate"]]

-----------------------------------------------------------------------------
(* AssessmentEngine: aggregation and recommendation *)

\* The score read from a component: line 471-474, 588-591
ScoreOf(score_data) ==
    IF IsDict(score_data) THEN Get(score_data, "overall_score", 0)
    ELSE score_data.num

\* A slip: the weighted sum is divided by the sum of all four weights.
OverallScoreAllWeights(component_scores) ==
    LET present == KeysIn(assessment_weights_keys, component_scores)
        total_score ==
            SumSeq([i \in DOMAIN present |->
                      ScoreOf(component_scores[present[i]])
                        * assessment_weights[present[i]]])
        total_weight ==
            SumSeq([i \in DOMAIN assessment_weights_keys |->
                      assessment_weights[assessment_weights_keys[i]]])
    IN  Round2(total_score, total_weight)

\* A slip: the neutral score of the fallback when nothing is weighted.
OverallScoreNeutralDefault(component_scores) ==
    LET present == KeysIn(assessment_weights_keys, component_scores)
        total_score ==
            SumSeq([i \in DOMAIN present |->
                      ScoreOf(component_scores[present[i]])
                        * assessment_weights[present[i]]])
        total_weight ==
            SumSeq([i \in DOMAIN present |-> assessment_weights[present[i]]])
    IN  IF total_weight > 0 THEN Round2(total_score, total_weight)
        ELSE Pts(50)

\* Lines 461-479
_calculate_overall_score(component_scores) ==
    LET present == KeysIn(assessment_weights_keys, component_scores)
        total_score ==
            SumSeq([i \in DOMAIN present |->
                      ScoreOf(component_scores[present[i]])
                        * assessment_weights[present[i]]])
        total_weight ==
            SumSeq([i \in DOMAIN present |-> assessment_weights[present[i]]])
    IN  IF total_weight > 0 THEN Round2(total_score, total_weight)
        ELSE Round2(0, 1)

\* sum(1 for risk in risk_factors if risk.get('severity') == 'high')
HighRiskCount(risk_factors) ==
    Cardinality({i \in DOMAIN risk_factors :
                    Get(risk_factors[i], "severity", "None") = "high"})

BaseRecommendation(score) ==
    IF score >= score_thresholds.strong_hire THEN "strong_hire"
    ELSE IF score >= score_thresholds.hire THEN "hire"
    ELSE IF score >= score_thresholds.maybe THEN "maybe"
    ELSE "no_hire"

\* A slip: hire is left as it is.
DowngradeStrongOnly(base_recommendation) ==
    IF base_recommendation = "strong_hire" THEN "hire"
    ELSE IF base_recommendation = "hire" THEN "hire"
    ELSE "no_hire"

\* The next lower tier: lines 628-633
Downgrade(base_recommendation) ==
    IF base_recommendation = "strong_hire" THEN "hire"
    ELSE IF base_recommendation = "hire" THEN "maybe"
    ELSE "no_hire"

\* A slip: one tier is taken off for every high risk from the second on.
HiringRecommendationPerRisk(score, risk_factors) ==
    LET base_recommendation == BaseRecommendation(score)
        high_risk_count == HighRiskCount(risk_factors)
    IN  IF high_risk_count >= 3
        THEN Downgrade(Downgrade(base_recommendation))
        ELSE IF high_risk_count >= 2 THEN Downgrade(base_recommendation)
        ELSE base_recommendation

\* A slip: the tier is lowered for exactly two high risks, not for more.
HiringRecommendationExactlyTwo(score, risk_factors) ==
    LET base_recommendation == BaseRecommendation(score)
        high_risk_count == HighRiskCount(risk_factors)
    IN  IF high_risk_count = 2
        THEN Downgrade(base_recommendation)
        ELSE base_recommendation

\* Lines 609-635
_determine_hiring_recommendation(score, risk_factors) ==
    LET base_recommendation == BaseRecommendation(score)
        high_risk_count == HighRiskCount(risk_factors)
    IN  IF high_risk_count >= 2
        THEN Downgrade(base_recommendation)
        ELSE base_recommendation

\* A slip: only the four weighted components are counted.
ConfidenceWeightedOnly(component_scores, has_interview_data) ==
    LET base_confidence ==
            IF has_interview_data THEN Pts(70) + Pts(20) ELSE Pts(70)
        complete_components ==
            Cardinality({c \in DOMAIN component_scores :
                            /\ c \in DOMAIN assessment_weights
                            /\ IsDict(component_scores[c])
                            /\ Get(component_scores[c], "overall_score", 0) > 0})
        completeness_bonus ==
            (complete_components * Pts(10)) \div Cardinality(DOMAIN assessment_weights)
    IN  Min(Pts(100), base_confidence + completeness_bonus)

\* complete_components * 10 / 4 points is a whole number of ticks.
_calculate_confidence_level(component_scores, has_interview_data) ==
    LET base_confidence ==
            IF has_interview_data THEN Pts(70) + Pts(20) ELSE Pts(70)
        complete_components ==
            Cardinality({c \in DOMAIN component_scores :
                            /\ IsDict(component_scores[c])
                            /\ Get(component_scores[c], "overall_score", 0) > 0})
        completeness_bonus ==
            (complete_components * Pts(10)) \div Cardinality(DOMAIN assessment_weights)
    IN  Min(Pts(100), base_confidence + completeness_bonus)

-----------------------------------------------------------------------------
(* AssessmentEngine: analysis, risks, recommendations *)

\* d[key] = value
Put(d, key, value) ==
    [k \in DOMAIN d \cup {key} |-> IF k = key THEN value ELSE d[k]]

\* The insertion order of assessment_report['component_scores']
component_order ==
    <<"resume_analysis", "skill_match", "experience_relevance",
      "interview_performance", "cultural_fit">>

\* The first key of keys (a non-empty list) whose score is the largest, as
\* max(items, key=...) returns it
FirstMax(keys, cs) ==
    LET best == MaxSeq([i \in DOMAIN keys |-> ScoreOf(cs[keys[i]])])
        i == CHOOSE i \in DOMAIN keys :
                /\ ScoreOf(cs[keys[i]]) = best
                /\ \A j \in 1..(i - 1) : ScoreOf(cs[keys[j]]) # best
    IN  keys[i]

FirstMin(keys, cs) ==
    LET least == -MaxSeq([i \in DOMAIN keys |-> -ScoreOf(cs[keys[i]])])
        i == CHOOSE i \in DOMAIN keys :
                /\ ScoreOf(cs[keys[i]]) = least
                /\ \A j \in 1..(i - 1) : ScoreOf(cs[keys[j]]) # least
    IN  keys[i]

_generate_detailed_analysis(cd, jd, component_scores) ==
    LET keys == KeysIn(component_order, component_scores)
    IN  [candidate_summary |->
             [name |-> Get(cd, "name", "Unknown"),
              experience_level |->
                  Get(Get(cd, "extracted_experience", EmptyDict),
                      "experience_level", "unknown"),
              total_years |->
                  Get(Get(cd, "extracted_experience", EmptyDict),
                      "total_years", PyInt(0)),
              key_skills |->
                  Take(10, Get(Get(cd, "extracted_skills", EmptyDict),
                               "all_skills", << >>)),
              education_level |->
                  Get(Get(cd, "extracted_education", EmptyDict),
                      "education_level", "unknown")],
         role_alignment |->
             [position |-> Get(jd, "title", "Unknown"),
              skill_match_percentage |->
                  Get(Get(component_scores, "skill_match", EmptyDict),
                      "overall_score", 0),
              experience_alignment |->
                  Get(Get(component_scores, "experience_relevance", EmptyDict),
                      "overall_score", 0),
              cultural_fit_score |->
                  Get(Get(component_scores, "cultural_fit", EmptyDict),
                      "overall_score", 0)],
         assessment_summary |->
             [total_components_evaluated |-> Len(keys),
              highest_scoring_area |-> FirstMax(keys, component_scores),
              lowest_scoring_area |-> FirstMin(keys, component_scores)]]

\* `for gap_start, gap_end in gaps` raises ValueError on an entry that is
\* not a pair (line 491).
\* What int(years_info.split()[0]) raises (line 519): IndexError when the
\* string has no token, ValueError when the first token is not an integer
\* literal.
YearsParseException(years_info) ==
    IF Split(years_info) = << >> THEN "IndexError"
    ELSE IF IntRaises(Split(years_info)[1]) THEN "ValueError"
    ELSE "none"

\* Mutation of ParseFailureCaught: the try has no except clause.
ParseFailurePropagates(exception) == FALSE

\* `except (ValueError, IndexError): pass` (lines 527-528)
ParseFailureCaught(exception) == exception \in {"ValueError", "IndexError"}

\* The years string that the overqualification check reads (lines 514-516)
YearsInfo(component_scores) ==
    Get(Get(Get(component_scores, "experience_relevance", EmptyDict),
            "analysis", EmptyDict),
        "years_vs_requirement", << >>)

\* The statements of _identify_risk_factors that raise out of the function:
\* the gap loop on an entry that is not a pair, and the parse of the years
\* string were its exception not caught.
RiskFactorsRaise(cd, component_scores) ==
    LET gaps == Get(Get(cd, "extracted_experience", EmptyDict),
                    "employment_gaps", << >>)
        experience_relevance ==
            Get(component_scores, "experience_relevance", EmptyDict)
        years_info == YearsInfo(component_scores)
    IN  \/ \E i \in DOMAIN gaps : Len(gaps[i]) # 2
        \/ /\ IsDict(experience_relevance)
           /\ IsSubstring(WORD.years, years_info)
           /\ YearsParseException(years_info) # "none"
           /\ ~ParseFailureCaught(YearsParseException(years_info))

\* Mutation of GapRisks: a gap is flagged from one year on and is high from
\* two years on.
GapRisksInclusive(gaps) ==
    LET Long(gap) == gap[2] - gap[1] >= 10
        long == SelectSeq(gaps, Long)
    IN  [i \in DOMAIN long |->
           [type |-> "employment_gap",
            severity |-> IF long[i][2] - long[i][1] < 20 THEN "medium" ELSE "high"]]

\* Gap years are held in tenths of a year.
GapRisks(gaps) ==
    LET Long(gap) == gap[2] - gap[1] > 10
        long == SelectSeq(gaps, Long)
    IN  [i \in DOMAIN long |->
           [type |-> "employment_gap",
            severity |-> IF long[i][2] - long[i][1] <= 20 THEN "medium" ELSE "high",
            description |-> <<"Employment gap of", long[i][2] - long[i][1],
                              long[i][1], long[i][2]>>,
            mitigation |-> "Discuss reasons for gap and activities during this period"]]

\* Mutation of SkillGapRisks: one risk for each missing skill.
SkillGapRiskPerSkill(component_scores) ==
    LET missing_skills ==
            Get(Get(Get(component_scores, "skill_match", EmptyDict),
                    "required_skills_match", EmptyDict),
                "missing_skills", << >>)
    IN  [i \in DOMAIN missing_skills |->
           [type |-> "skill_gap", severity |-> "medium"]]

SkillGapRisks(component_scores) ==
    LET skill_match == Get(component_scores, "skill_match", EmptyDict)
        missing_skills ==
            Get(Get(skill_match, "required_skills_match", EmptyDict),
                "missing_skills", << >>)
    IN  IF IsDict(skill_match) /\ Truthy(missing_skills)
        THEN << [type |-> "skill_gap", severity |-> "medium",
                 description |-> <<"Missing required skills:", Take(3, missing_skills)>>,
                 mitigation |-> "Assess learning ability and provide training plan"] >>
        ELSE << >>

OverqualificationRisks(component_scores) ==
    LET experience_relevance ==
            Get(component_scores, "experience_relevance", EmptyDict)
        years_info == YearsInfo(component_scores)
    IN  IF /\ IsDict(experience_relevance)
           /\ IsSubstring(WORD.years, years_info)
           /\ YearsParseException(years_info) = "none"
           /\ IntOf(Split(years_info)[1]) > 15
        THEN << [type |-> "overqualification", severity |-> "low",
                 description |-> "Candidate may be overqualified for the role",
                 mitigation |-> "Discuss career goals and long-term commitment"] >>
        ELSE << >>

\* Mutation of InterviewRisks: a missing score counts as 0, not as 100.
InterviewRisksDefaultZero(component_scores) ==
    LET interview_score == Get(component_scores, "interview_performance", EmptyDict)
    IN  IF IsDict(interview_score)
           /\ Get(interview_score, "overall_score", Pts(0)) < Pts(60)
        THEN << [type |-> "interview_performance", severity |-> "high"] >>
        ELSE << >>

InterviewRisks(component_scores) ==
    LET interview_score == Get(component_scores, "interview_performance", EmptyDict)
    IN  IF IsDict(interview_score)
           /\ Get(interview_score, "overall_score", Pts(100)) < Pts(60)
        THEN << [type |-> "interview_performance", severity |-> "high",
                 description |-> "Below-average interview performance",
                 mitigation |->
                     "Consider additional interview rounds or practical assessments"] >>
        ELSE << >>

\* Mutation of _identify_risk_factors: the parse failure ends the function,
\* the interview check is not reached.
RiskFactorsEndAtParseFailure(cd, component_scores) ==
    GapRisks(Get(Get(cd, "extracted_experience", EmptyDict),
                 "employment_gaps", << >>))
      \o SkillGapRisks(component_scores)
      \o OverqualificationRisks(component_scores)
      \o (IF YearsParseException(YearsInfo(component_scores)) = "none"
          THEN InterviewRisks(component_scores) ELSE << >>)

_identify_risk_factors(cd, component_scores) ==
    GapRisks(Get(Get(cd, "extracted_experience", EmptyDict), "employment_gaps", << >>))
    \o SkillGapRisks(component_scores)
    \o OverqualificationRisks(component_scores)
    \o InterviewRisks(component_scores)

\* A slip: a suggestion for resume_analysis and cultural_fit as well.
DevelopmentPlanEntryForAll(component) ==
    IF component = "skill_match"
      THEN <<"Technical skills training in missing areas">>
    ELSE IF component = "interview_performance"
      THEN <<"Communication and presentation skills development">>
    ELSE IF component = "experience_relevance"
      THEN <<"Mentoring and guidance in role-specific responsibilities">>
    ELSE <<"General development">>

\* Lines 593-605: the suggestion for a component scoring under 70
DevelopmentPlanEntry(component) ==
    IF component = "skill_match"
      THEN <<"Technical skills training in missing areas">>
    ELSE IF component = "interview_performance"
      THEN <<"Communication and presentation skills development">>
    ELSE IF component = "experience_relevance"
      THEN <<"Mentoring and guidance in role-specific responsibilities">>
    ELSE << >>

_generate_recommendations(score, component_scores, detailed_analysis) ==
    LET tier == BaseRecommendation(score)
        keys == KeysIn(component_order, component_scores)
    IN  [hiring_decision |->
             IF tier = "strong_hire"
               THEN "Strong Hire - Excellent candidate with minimal risk"
             ELSE IF tier = "hire"
               THEN "Hire - Good candidate with manageable development needs"
             ELSE IF tier = "maybe"
               THEN "Maybe - Candidate shows potential but has significant gaps"
             ELSE "No Hire - Candidate does not meet minimum requirements",
         next_steps |->
             IF tier = "strong_hire"
               THEN <<"Proceed with offer preparation",
                      "Conduct reference checks",
                      "Prepare comprehensive onboarding plan">>
             ELSE IF tier = "hire"
               THEN <<"Conduct final interview round",
                      "Verify key skills through practical assessment",
                      "Prepare targeted development plan">>
             ELSE IF tier = "maybe"
               THEN <<"Conduct additional technical assessment",
                      "Interview with senior team members",
                      "Evaluate cultural fit more thoroughly">>
             ELSE <<"Provide constructive feedback",
                    "Consider for future opportunities if applicable",
                    "Document assessment for learning purposes">>,
         development_plan |->
             Concat([i \in DOMAIN keys |->
                       IF ScoreOf(component_scores[keys[i]]) < Pts(70)
                       THEN DevelopmentPlanEntry(keys[i]) ELSE << >>]),
         onboarding_focus |-> << >>,
         follow_up_questions |-> << >>]

StrengthEntry(component, score) ==
    IF component = "skill_match"
      THEN << <<"Strong technical skill alignment", score>> >>
    ELSE IF component = "experience_relevance"
      THEN << <<"Highly relevant experience", score>> >>
    ELSE IF component = "interview_performance"
      THEN << <<"Excellent interview performance", score>> >>
    ELSE IF component = "resume_analysis"
      THEN << <<"Well-structured professional profile", score>> >>
    ELSE << >>

DevelopmentAreaEntry(component) ==
    IF component = "skill_match"
      THEN <<"Technical skills gap in key areas">>
    ELSE IF component = "experience_relevance"
      THEN <<"Limited relevant experience">>
    ELSE IF component = "interview_performance"
      THEN <<"Interview communication needs improvement">>
    ELSE IF component = "resume_analysis"
      THEN <<"Professional presentation could be enhanced">>
    ELSE << >>

\* Mutation of _extract_strengths_and_development_areas: every component
\* of the map has its entry, cultural_fit as well.
ExtractForEveryComponent(detailed_analysis, component_scores) ==
    LET keys == KeysIn(component_order, component_scores)
        Score(k) == Get(component_scores[k], "overall_score", 0)
    IN  << Take(5, Concat([i \in DOMAIN keys |->
                     IF IsDict(component_scores[keys[i]]) /\ Score(keys[i]) >= Pts(80)
                     THEN IF keys[i] = "cultural_fit"
                          THEN << <<"Strong cultural fit", Score(keys[i])>> >>
                          ELSE StrengthEntry(keys[i], Score(keys[i]))
                     ELSE << >>])),
           Take(5, Concat([i \in DOMAIN keys |->
                     IF IsDict(component_scores[keys[i]]) /\ Score(keys[i]) < Pts(60)
                     THEN IF keys[i] = "cultural_fit"
                          THEN <<"Cultural fit needs attention">>
                          ELSE DevelopmentAreaEntry(keys[i])
                     ELSE << >>])) >>

\* The pair (strengths, development_areas)
_extract_strengths_and_development_areas(detailed_analysis, component_scores) ==
    LET keys == KeysIn(component_order, component_scores)
        Score(k) == Get(component_scores[k], "overall_score", 0)
    IN  << Take(5, Concat([i \in DOMAIN keys |->
                     IF IsDict(component_scores[keys[i]]) /\ Score(keys[i]) >= Pts(80)
                     THEN StrengthEntry(keys[i], Score(keys[i])) ELSE << >>])),
           Take(5, Concat([i \in DOMAIN keys |->
                     IF IsDict(component_scores[keys[i]])
                        /\ Score(keys[i]) < Pts(80) /\ Score(keys[i]) < Pts(60)
                     THEN DevelopmentAreaEntry(keys[i]) ELSE << >>])) >>

_get_fallback_assessment ==
    [overall_score |-> Pts(50),
     component_scores |->
         [resume_analysis |-> [overall_score |-> Pts(50)],
          skill_match |-> [overall_score |-> Pts(50)],
          experience_relevance |-> [overall_score |-> Pts(50)]],
     detailed_analysis |->
         [error |-> "Assessment could not be completed due to technical issues"],
     recommendations |->
         [hiring_decision |-> "Manual Review Required",
          next_steps |-> <<"Conduct manual assessment", "Review technical issues">>],
     risk_factors |->
         << [type |-> "technical_error", severity |-> "high",
             description |-> "Automated assessment failed",
             mitigation |-> "Conduct manual review"] >>,
     strengths |-> <<"Assessment data available">>,
     development_areas |-> <<"Technical assessment needed">>,
     hiring_recommendation |-> "manual_review",
     confidence_level |-> Pts(20)]

-----------------------------------------------------------------------------
(* The engine at rest, and the pure-function harness at rest *)

\* The database before any interview session is started
NoRows == [interview_sessions |-> << >>, assessments |-> << >>]

EngineIdle ==
    /\ candidate_data = << >>
    /\ job_description = << >>
    /\ interview_responses = << >>
    /\ pc = "idle"
    /\ assessment_report = << >>
    /\ overall_score = 0
    /\ result = << >>
    /\ exc = "none"
    /\ engine = AssessmentEngine
    /\ hash_seed = 0
    /\ utcnow = 0
    /\ db = NoRows

UnitIdle ==
    /\ fn = "none"
    /\ args = << >>
    /\ ret = << >>
    /\ returned = FALSE

-----------------------------------------------------------------------------
(* SpecMatch: calls of calculate_job_match_score on bounded skill lists *)

SkillNames == {SKILL.empty, SKILL.js, SKILL.javascript, SKILL.java, SKILL.python, SKILL.PY}

SeqsUpTo(S, n) == UNION {[1..k -> S] : k \in 0..n}

InitMatch ==
    /\ fn = "calculate_job_match_score"
    /\ args \in [candidate_skills : SeqsUpTo(SkillNames, MaxCandidateSkills),
                 job_requirements : SeqsUpTo(SkillNames, MaxRequiredSkills)]
    /\ ret = << >>
    /\ returned = FALSE
    /\ EngineIdle

CallMatch ==
    /\ fn = "calculate_job_match_score"
    /\ ~returned
    /\ ret' = calculate_job_match_score(args.candidate_skills,
                                        args.job_requirements)
    /\ returned' = TRUE
    /\ UNCHANGED <<fn, args>>
    /\ UNCHANGED engineVars

NextMatch == CallMatch

SpecMatch == InitMatch /\ [][NextMatch]_vars

-----------------------------------------------------------------------------
(* SpecScore: calls of _calculate_overall_score and of                     *)
(* _determine_hiring_recommendation on bounded arguments                   *)

ComponentNames ==
    {"resume_analysis", "skill_match", "interview_performance",
     "experience_relevance", "cultural_fit"}

\* What a component of the map may be: a score dict, a dict without a
\* score, a bare number.
ScoreDataSamples ==
    {[overall_score |-> Pts(0)], [overall_score |-> Pts(60)],
     [overall_score |-> Pts(80)], [overall_score |-> Pts(100)],
     [overall_score |-> Pts(60) - 3], [overall_score |-> Pts(80) - 3],
     [analysis |-> "No interview data available"], Num(Pts(80))}

ComponentMaps ==
    UNION {[present -> ScoreDataSamples] : present \in SUBSET ComponentNames}

\* Scores on both sides of every threshold, one hundredth apart.
OverallScoreSamples ==
    {Pts(0), Pts(55) - 3, Pts(55), Pts(70) - 3, Pts(70), Pts(85) - 3,
     Pts(85), Pts(90), Pts(100)}

RiskSamples ==
    {[type |-> "employment_gap", severity |-> "high"],
     [type |-> "employment_gap", severity |-> "medium"],
     [type |-> "overqualification", severity |-> "low"],
     [type |-> "interview_performance", severity |-> "high"]}

\* Employment gaps (start, end) in tenths of a year: half a year, one
\* year, 1.1, two years, 2.1 and three years long.
GapSamples == {<<20100, 20100 + length>> : length \in {5, 10, 11, 20, 21, 30}}

\* 'years_vs_requirement' as line 343 formats it for a mid-level job
YearsInfoOf(total_years) ==
    YearsToStr(total_years) \o WORD.years_requirement
      \o <<"3", "-", "7", ")">>

\* What _identify_risk_factors may find under each key it reads: a bare
\* number, a dict without the field it looks for, and dicts with the field
\* on both sides of what it tests.
RiskComponentSamples ==
    [skill_match |->
        {Num(Pts(40)), [overall_score |-> Pts(40)]}
        \cup {[overall_score |-> Pts(40),
                required_skills_match |-> [missing_skills |-> missing]] :
               missing \in {<< >>, <<SKILL.python>>,
                            <<SKILL.python, SKILL.java, SKILL.js, SKILL.ts>>}},
     experience_relevance |->
        {Num(Pts(40)), [overall_score |-> Pts(40)]}
        \cup {[overall_score |-> Pts(40),
                analysis |-> [years_vs_requirement |-> YearsInfoOf(years)]] :
               years \in {PyInt(15), PyInt(16), PyFloat(155), PyFloat(160)}},
     interview_performance |->
        {Num(Pts(40)), [analysis |-> "No interview data available"],
         [overall_score |-> Pts(0)], [overall_score |-> Pts(60) - 3],
         [overall_score |-> Pts(60)]}]

\* The maps with any of the three keys absent
RiskComponentMaps ==
    UNION {{component_scores \in
              [present -> UNION {RiskComponentSamples[c] : c \in present}] :
                \A c \in present :
                    component_scores[c] \in RiskComponentSamples[c]} :
           present \in SUBSET DOMAIN RiskComponentSamples}

\* Components on both sides of 70, one hundredth apart, as score dicts and
\* as bare numbers; a dict without a score
PlanComponentSamples ==
    {[overall_score |-> Pts(70) - 3], [overall_score |-> Pts(70)],
     [overall_score |-> Pts(100)], [analysis |-> "No interview data available"],
     Num(Pts(70) - 3), Num(Pts(70))}

PlanComponentMaps ==
    UNION {[present -> PlanComponentSamples] : present \in SUBSET ComponentNames}

InitScore ==
    /\ \/ /\ fn = "_generate_recommendations"
          /\ args \in [overall_score : {Pts(0), Pts(55), Pts(70), Pts(85)},
                       component_scores : PlanComponentMaps,
                       detailed_analysis : {EmptyDict}]
       \/ /\ fn = "_calculate_overall_score"
          /\ args \in [component_scores : ComponentMaps]
       \/ /\ fn = "_determine_hiring_recommendation"
          /\ args \in [overall_score : OverallScoreSamples,
                       risk_factors : SeqsUpTo(RiskSamples, MaxRisks)]
       \/ /\ fn = "_extract_strengths_and_development_areas"
          /\ args \in [detailed_analysis : {EmptyDict},
                       component_scores : ComponentMaps]
       \/ /\ fn = "_identify_risk_factors"
          /\ args \in [candidate_data :
                          {EmptyDict}
                          \cup {[extracted_experience |->
                                    [employment_gaps |-> gaps]] :
                                 gaps \in SeqsUpTo(GapSamples, MaxGaps)},
                       component_scores : RiskComponentMaps]
    /\ ret = << >>
    /\ returned = FALSE
    /\ EngineIdle

CallOverallScore ==
    /\ fn = "_calculate_overall_score"
    /\ ~returned
    /\ ret' = _calculate_overall_score(args.component_scores)
    /\ returned' = TRUE
    /\ UNCHANGED <<fn, args>>
    /\ UNCHANGED engineVars

CallHiringRecommendation ==
    /\ fn = "_determine_hiring_recommendation"
    /\ ~returned
    /\ ret' = _determine_hiring_recommendation(args.overall_score,
                                               args.risk_factors)
    /\ returned' = TRUE
    /\ UNCHANGED <<fn, args>>
    /\ UNCHANGED engineVars

CallIdentifyRiskFactors ==
    /\ fn = "_identify_risk_factors"
    /\ ~returned
    /\ ret' = IF RiskFactorsRaise(args.candidate_data, args.component_scores)
              THEN [raised |-> "ValueError", value |-> << >>]
              ELSE [raised |-> "none",
                    value |-> _identify_risk_factors(args.candidate_data,
                                                     args.component_scores)]
    /\ returned' = TRUE
    /\ UNCHANGED <<fn, args>>
    /\ UNCHANGED engineVars

CallExtractStrengths ==
    /\ fn = "_extract_strengths_and_development_areas"
    /\ ~returned
    /\ ret' = _extract_strengths_and_development_areas(
                  args.detailed_analysis, args.component_scores)
    /\ returned' = TRUE
    /\ UNCHANGED <<fn, args>>
    /\ UNCHANGED engineVars

CallGenerateRecommendations ==
    /\ fn = "_generate_recommendations"
    /\ ~returned
    /\ ret' = _generate_recommendations(args.overall_score,
                                        args.component_scores,
                                        args.detailed_analysis)
    /\ returned' = TRUE
    /\ UNCHANGED <<fn, args>>
    /\ UNCHANGED engineVars

NextScore ==
    \/ CallGenerateRecommendations
    \/ CallOverallScore
    \/ CallHiringRecommendation
    \/ CallIdentifyRiskFactors
    \/ CallExtractStrengths

SpecScore == InitScore /\ [][NextScore]_vars

-----------------------------------------------------------------------------
(* AssessmentEngine.conduct_comprehensive_assessment, statement by statement *)

\* The statements of the try block, in order; then the call has returned.
step_names ==
    <<"create_report", "resume_analysis", "skill_match",
      "experience_relevance", "interview_performance", "overall_score",
      "detailed_analysis", "cultural_fit", "risk_factors", "recommendations",
      "hiring_recommendation", "confidence_level", "strengths">>

\* A slip: cultural fit is made a fifth weighted component (weight .20 on
\* top of the four) of the overall score.
OverallScoreWithCulturalFit(cd, ir, component_scores) ==
    LET present == KeysIn(assessment_weights_keys, component_scores)
        total_score ==
            SumSeq([i \in DOMAIN present |->
                      ScoreOf(component_scores[present[i]])
                        * assessment_weights[present[i]]])
            + _assess_cultural_fit(cd, ir).overall_score * 20
        total_weight ==
            SumSeq([i \in DOMAIN present |-> assessment_weights[present[i]]]) + 20
    IN  Round2(total_score, total_weight)

\* Line 96, in the scope of the arguments of the call: the overall score is
\* computed from the component scores present so far.
OverallScoreStatement(cd, ir, component_scores) ==
    _calculate_overall_score(component_scores)

\* The locals of the call: assessment_report and the local overall_score.
Frame == [assessment_report |-> assessment_report,
          overall_score |-> overall_score]

\* assessment_report['component_scores'][name] = score
WithComponent(name, score) ==
    [Frame EXCEPT !.assessment_report.component_scores = Put(@, name, score)]

\* A slip: the handler returns the report as far as it was filled in.
ExceptReturnsPartial(report) == report

\* except Exception: return self._get_fallback_assessment()
ExceptHandler(report) == _get_fallback_assessment

\* Mutation of SelfAfter: the interview step switches the interview weight
\* off in the engine when the call has no responses, and on when it has.
SelfWithInterviewWeightSet(k, self) ==
    IF k = 5
    THEN [self EXCEPT !.assessment_weights.interview_performance =
            IF HasResponses(interview_responses) THEN 35 ELSE 0]
    ELSE self

\* The fields of the engine after the k-th statement: no statement of
\* conduct_comprehensive_assessment or of the methods it calls assigns to
\* an attribute of self or stores into one of its dicts.
SelfAfter(k, self) == self

\* The k-th statement of the try block: it raises `raised` and the except
\* clause returns, or it leaves the locals as `after`; the one after the
\* last is the return.
Statement(k, raised, after) ==
    /\ IF raised # "none"
       THEN /\ exc' = raised
            /\ result' = ExceptHandler(assessment_report)
            /\ pc' = "returned"
            /\ UNCHANGED <<assessment_report, overall_score>>
       ELSE /\ assessment_report' = after.assessment_report
            /\ overall_score' = after.overall_score
            /\ IF k < Len(step_names)
               THEN pc' = step_names[k + 1] /\ UNCHANGED result
               ELSE pc' = "returned" /\ result' = after.assessment_report
            /\ UNCHANGED exc
    /\ engine' = SelfAfter(k, engine)
    /\ UNCHANGED <<candidate_data, job_description, interview_responses>>
    /\ UNCHANGED <<hash_seed, utcnow, db>>
    /\ UNCHANGED unitVars

\* Lines 62-75: .get on None raises AttributeError
CreateReport ==
    /\ pc = step_names[1]
    /\ Statement(1,
        IF IsNone(candidate_data) \/ IsNone(job_description)
        THEN "AttributeError" ELSE "none",
        [Frame EXCEPT !.assessment_report =
           [candidate_id |-> Get(candidate_data, "id", NoneValue),
            job_id |-> Get(job_description, "id", NoneValue),
            assessment_timestamp |-> utcnow,
            overall_score |-> 0,
            component_scores |-> EmptyDict,
            detailed_analysis |-> EmptyDict,
            recommendations |-> EmptyDict,
            risk_factors |-> << >>,
            strengths |-> << >>,
            development_areas |-> << >>,
            hiring_recommendation |-> "no_hire",
            confidence_level |-> 0]])

\* Lines 78-79
AssessResumeQuality ==
    /\ pc = step_names[2]
    /\ Statement(2,
        IF ResumeQualityRaises(candidate_data) THEN "TypeError" ELSE "none",
        WithComponent("resume_analysis", _assess_resume_quality(candidate_data)))

\* Lines 82-83
AssessSkillMatch ==
    /\ pc = step_names[3]
    /\ Statement(3, "none",
        WithComponent("skill_match",
                      _assess_skill_match(candidate_data, job_description)))

\* Lines 86-87
AssessExperienceRelevance ==
    /\ pc = step_names[4]
    /\ Statement(4,
        IF ExperienceRelevanceRaises(candidate_data, job_description)
        THEN "ZeroDivisionError" ELSE "none",
        WithComponent("experience_relevance",
                      _assess_experience_relevance(candidate_data,
                                                   job_description)))

\* Lines 90-93: if interview_responses:
AssessInterviewPerformance ==
    /\ pc = step_names[5]
    /\ Statement(5,
        IF HasResponses(interview_responses)
           /\ InterviewPerformanceRaises(interview_responses.items)
        THEN "AttributeError" ELSE "none",
        IF HasResponses(interview_responses)
        THEN WithComponent("interview_performance",
                 _assess_interview_performance(interview_responses.items))
        ELSE Frame)

\* Lines 96-97
CalculateOverallScore ==
    /\ pc = step_names[6]
    /\ Statement(6, "none",
        LET score == OverallScoreStatement(candidate_data, interview_responses,
                         assessment_report.component_scores)
        IN  [Frame EXCEPT !.overall_score = score,
                          !.assessment_report.overall_score = score])

\* Lines 100-102
GenerateDetailedAnalysis ==
    /\ pc = step_names[7]
    /\ Statement(7, "none",
        [Frame EXCEPT !.assessment_report.detailed_analysis =
           _generate_detailed_analysis(candidate_data, job_description,
                                       assessment_report.component_scores)])

\* Lines 105-106
AssessCulturalFit ==
    /\ pc = step_names[8]
    /\ Statement(8,
        IF CulturalFitRaises(candidate_data, interview_responses)
        THEN "AttributeError" ELSE "none",
        WithComponent("cultural_fit",
                      _assess_cultural_fit(candidate_data, interview_responses)))

\* Lines 109-111
IdentifyRiskFactors ==
    /\ pc = step_names[9]
    /\ Statement(9,
        IF RiskFactorsRaise(candidate_data,
                            assessment_report.component_scores)
        THEN "ValueError" ELSE "none",
        [Frame EXCEPT !.assessment_report.risk_factors =
           _identify_risk_factors(candidate_data,
                                  assessment_report.component_scores)])

\* Lines 114-118
GenerateRecommendations ==
    /\ pc = step_names[10]
    /\ Statement(10, "none",
        [Frame EXCEPT !.assessment_report.recommendations =
           _generate_recommendations(assessment_report.overall_score,
                                     assessment_report.component_scores,
                                     assessment_report.detailed_analysis)])

\* Lines 121-123
DetermineHiringRecommendation ==
    /\ pc = step_names[11]
    /\ Statement(11, "none",
        [Frame EXCEPT !.assessment_report.hiring_recommendation =
           _determine_hiring_recommendation(overall_score,
                                            assessment_report.risk_factors)])

\* Lines 126-128: has_interview_data is `interview_responses is not None`
CalculateConfidenceLevel ==
    /\ pc = step_names[12]
    /\ Statement(12, "none",
        [Frame EXCEPT !.assessment_report.confidence_level =
           _calculate_confidence_level(assessment_report.component_scores,
                                       ~IsNone(interview_responses))])

\* Lines 131-136, and the return that follows
ExtractStrengths ==
    /\ pc = step_names[13]
    /\ Statement(13, "none",
        LET both == _extract_strengths_and_development_areas(
                        assessment_report.detailed_analysis,
                        assessment_report.component_scores)
        IN  [Frame EXCEPT !.assessment_report.strengths = both[1],
                          !.assessment_report.development_areas = both[2]])

-----------------------------------------------------------------------------
(* Spec: calls of conduct_comprehensive_assessment on sampled arguments *)

ShortText == [length |-> 120, newlines |-> 3, bullets |-> FALSE]
LongText == [length |-> 1800, newlines |-> 40, bullets |-> TRUE]

FewSkills ==
    [all_skills |-> <<SKILL.python, SKILL.js>>,
     technical_skills |->
         [programming_languages |-> <<SKILL.python, SKILL.js>>, databases |-> << >>],
     soft_skills |-> << >>]

\* More than a hundred skills, in three populated categories.
ManySkills ==
    [all_skills |->
         [i \in 1..ManySkillsCount |->
            IF i % 3 = 1 THEN SKILL.python ELSE IF i % 3 = 2 THEN SKILL.javascript
            ELSE SKILL.k8s],
     technical_skills |->
         [programming_languages |->
              [i \in 1..12 |-> IF i % 2 = 1 THEN SKILL.python ELSE SKILL.javascript],
          tools_technologies |-> [i \in 1..8 |-> SKILL.k8s],
          databases |-> <<SKILL.postgres, SKILL.mongo>>],
     soft_skills |-> << >>]

\* The candidate apart from the experience: nothing but defaults, a plain
\* profile, a full profile.
ProfileSamples ==
    {EmptyDict,
     [email |-> TEXT.email, resume_text |-> ShortText,
      extracted_skills |-> FewSkills,
      extracted_education |->
          [degrees |-> <<"BSc">>, education_level |-> "bachelors"]],
     [email |-> TEXT.email, resume_text |-> LongText,
      extracted_skills |-> ManySkills,
      extracted_education |->
          [degrees |-> <<"PhD">>, education_level |-> "doctorate"]]}

YearsSamples == {PyInt(-1), PyInt(4), PyInt(10), PyFloat(155), PyInt(16)}

\* Gaps in tenths of a year: none; one of a year and one of a year and a
\* half; one of three years; one of three and one of four years.
GapsSamples ==
    {<< >>,
     << <<20100, 20110>>, <<20120, 20135>> >>,
     << <<20100, 20130>> >>,
     << <<20100, 20130>>, <<20150, 20190>> >>}

\* A responsibility is a string or, ill-typed, None.
PyStr(chars) == [py |-> "str", s |-> chars]

CareerSamples ==
    {[job_titles |-> << >>, companies |-> << >>],
     [job_titles |-> <<TEXT.software_engineer>>, companies |-> <<"Acme">>,
      career_progression |-> [shows_growth |-> TRUE],
      responsibilities |-> <<PyStr(TEXT.wrote_reports)>>],
     [job_titles |-> <<TEXT.Lead_Software_Engineer, TEXT.Engineering_Manager>>,
      companies |-> <<"Acme", "Initech">>,
      career_progression |->
          [shows_growth |-> TRUE, leadership_progression |-> TRUE],
      responsibilities |->
          <<PyStr(TEXT.mentored_team), PyStr(TEXT.wrote_reports)>>]}

WellTypedExperience ==
    {Put(Put(career, "total_years", years), "employment_gaps", gaps) :
        career \in CareerSamples, years \in YearsSamples, gaps \in GapsSamples}

\* total_years None; a gap entry that is no pair; a responsibility None
IllTypedExperience ==
    LET base == [job_titles |-> <<TEXT.software_engineer>>,
                 companies |-> <<"Acme">>, total_years |-> PyInt(4),
                 employment_gaps |-> << <<20100, 20130>> >>]
    IN  {Put(base, "total_years", NoneValue),
         Put(base, "employment_gaps", << <<20100, 20110, 20120>> >>),
         Put(base, "responsibilities", <<NoneValue>>)}

ExperienceSamples == WellTypedExperience \cup IllTypedExperience

CandidateSamples ==
    {NoneValue} \cup ProfileSamples
    \cup {Put(profile, "extracted_experience", experience) :
            profile \in ProfileSamples, experience \in ExperienceSamples}

JobSamples ==
    {NoneValue,
     EmptyDict,
     [title |-> TEXT.software_engineer, required_skills |-> <<SKILL.python>>,
      preferred_skills |-> <<SKILL.js>>, experience_level |-> "mid"],
     [title |-> TEXT.Senior_Software_Engineer,
      required_skills |-> <<SKILL.python, SKILL.javascript, SKILL.kubernetes>>,
      preferred_skills |-> <<SKILL.python>>, experience_level |-> "senior"],
     [title |-> TEXT.blank, required_skills |-> <<SKILL.docker>>,
      experience_level |-> "entry"]}

\* A response with nothing in it, a strong one, one scored above 100.
ResponseSamples ==
    {EmptyDict,
     [question |-> [category |-> "behavioral"],
      evaluation |->
          [overall_score |-> Pts(95),
           scores |-> [communication_clarity |-> Pts(90)],
           strengths |-> <<"Clear communication">>,
           feedback |-> TEXT.feedback_team]],
     [question |-> [category |-> "technical"],
      evaluation |->
          [overall_score |-> Pts(120),
           strengths |-> <<"Deep knowledge", "Structured answers",
                           "Concrete examples", "Good trade-offs",
                           "Asks questions">>,
           areas_for_improvement |-> <<"Brevity", "Depth", "Brevity">>]]}

\* The hash seeds that give different reports on these responses: a set of
\* fewer than two strings is listed the same way under every seed.
HashSeedsFor(ir) ==
    IF /\ HasResponses(ir)
       /\ \A i \in DOMAIN ir.items : ~IsNone(ir.items[i])
       /\ \E key \in {"strengths", "areas_for_improvement"} :
             Cardinality(UNION {Elems(Get(Get(ir.items[i], "evaluation",
                                              EmptyDict), key, << >>)) :
                                i \in DOMAIN ir.items}) > 1
    THEN {0, 1} ELSE {0}

\* None, a list holding None, and the lists of responses
InterviewSamples ==
    {NoneValue, PyList(<<NoneValue>>)}
    \cup {PyList(items) : items \in SeqsUpTo(ResponseSamples, MaxResponses)}

Init ==
    /\ candidate_data \in CandidateSamples
    /\ job_description \in JobSamples
    /\ interview_responses \in InterviewSamples
    /\ pc = step_names[1]
    /\ assessment_report = << >>
    /\ overall_score = 0
    /\ result = << >>
    /\ exc = "none"
    /\ engine = AssessmentEngine
    /\ hash_seed \in HashSeedsFor(interview_responses)
    /\ utcnow = 0
    /\ db = NoRows
    /\ UnitIdle

Next ==
    \/ CreateReport
    \/ AssessResumeQuality
    \/ AssessSkillMatch
    \/ AssessExperienceRelevance
    \/ AssessInterviewPerformance
    \/ CalculateOverallScore
    \/ GenerateDetailedAnalysis
    \/ AssessCulturalFit
    \/ IdentifyRiskFactors
    \/ GenerateRecommendations
    \/ DetermineHiringRecommendation
    \/ CalculateConfidenceLevel
    \/ ExtractStrengths

Spec == Init /\ [][Next]_vars

-----------------------------------------------------------------------------
(* SpecOptional: calls on a candidate and a job from which optional keys   *)
(* have been left out                                                      *)

\* d without the keys that are not in keys
Restrict(d, keys) == [key \in DOMAIN d \cap keys |-> d[key]]

\* A candidate with every key the engine reads
FullCandidate ==
    [id |-> "c1", name |-> "Ann", email |-> TEXT.email,
     resume_text |-> ShortText,
     extracted_skills |-> FewSkills,
     extracted_experience |->
         [total_years |-> PyInt(4),
          job_titles |-> <<TEXT.Lead_Software_Engineer>>,
          companies |-> <<"Acme">>,
          career_progression |->
              [shows_growth |-> TRUE, leadership_progression |-> TRUE],
          employment_gaps |-> << <<20100, 20130>> >>,
          responsibilities |-> <<PyStr(TEXT.mentored_team)>>,
          experience_level |-> "mid"],
     extracted_education |->
         [degrees |-> <<"BSc">>, education_level |-> "bachelors"]]

FullJob ==
    [id |-> "j1", title |-> TEXT.software_engineer,
     required_skills |-> <<SKILL.python, SKILL.kubernetes>>,
     preferred_skills |-> <<SKILL.js>>, experience_level |-> "mid"]

\* The full candidate with any of its keys left out, or with any of the
\* keys of one of its dicts left out
CandidateSubsets ==
    {Restrict(FullCandidate, keys) : keys \in SUBSET DOMAIN FullCandidate}
    \cup UNION {{Put(FullCandidate, part, Restrict(FullCandidate[part], keys)) :
                   keys \in SUBSET DOMAIN FullCandidate[part]} :
                part \in {"extracted_skills", "extracted_experience",
                          "extracted_education"}}
    \cup {Put(FullCandidate, "extracted_experience",
               Put(FullCandidate.extracted_experience, "career_progression",
                   Restrict(FullCandidate.extracted_experience
                                .career_progression, keys))) :
            keys \in SUBSET {"shows_growth", "leadership_progression"}}

JobSubsets == {Restrict(FullJob, keys) : keys \in SUBSET DOMAIN FullJob}

InitOptional ==
    /\ candidate_data \in CandidateSubsets
    /\ job_description \in JobSubsets
    /\ interview_responses \in
          {NoneValue, PyList(<<EmptyDict>>),
           PyList(<<[evaluation |-> [overall_score |-> Pts(95)]]>>)}
    /\ pc = step_names[1]
    /\ assessment_report = << >>
    /\ overall_score = 0
    /\ result = << >>
    /\ exc = "none"
    /\ engine = AssessmentEngine
    /\ hash_seed = 0
    /\ utcnow = 0
    /\ db = NoRows
    /\ UnitIdle

SpecOptional == InitOptional /\ [][Next]_vars

-----------------------------------------------------------------------------
(* SpecTwice: the engine called a second time, on arguments that differ    *)
(* from those of the first call only in what _assess_cultural_fit reads    *)

\* response with evaluation.scores.communication_clarity and
\* evaluation.feedback (lines 431 and 435) set anew
WithCulturalFields(response, clarity, feedback) ==
    LET evaluation == Get(response, "evaluation", EmptyDict)
        scores == Get(evaluation, "scores", EmptyDict)
    IN  Put(response, "evaluation",
            Put(Put(evaluation, "scores",
                    Put(scores, "communication_clarity", clarity)),
                "feedback", feedback))

\* The responses as they are, or every one of them with a low clarity score
\* and a feedback text without the words looked for
InterviewVariants(ir) ==
    IF IsNone(ir) THEN {ir}
    ELSE {ir,
          PyList([i \in DOMAIN ir.items |->
                    WithCulturalFields(ir.items[i], Pts(30), TEXT.feedback_plain)])}

\* The candidate as it is, or with other responsibilities texts (line 447)
CandidateVariants(cd) ==
    IF "extracted_experience" \in DOMAIN cd
    THEN {cd} \cup
         {Put(cd, "extracted_experience",
              Put(cd.extracted_experience, "responsibilities", texts)) :
            texts \in {<< >>, <<PyStr(TEXT.mentored_team)>>}}
    ELSE {cd}

TwiceExperienceSamples ==
    {Put(Put(career, "total_years", years), "employment_gaps", gaps) :
        career \in CareerSamples,
        years \in {PyInt(4), PyInt(10)},
        gaps \in {<< >>, << <<20100, 20130>>, <<20150, 20190>> >>}}

TwiceCandidateSamples ==
    ProfileSamples
    \cup {Put(profile, "extracted_experience", experience) :
            profile \in ProfileSamples, experience \in TwiceExperienceSamples}

InitTwice ==
    /\ candidate_data \in TwiceCandidateSamples
    /\ job_description \in JobSamples \ {NoneValue}
    /\ interview_responses \in InterviewSamples \ {PyList(<<NoneValue>>)}
    /\ pc = step_names[1]
    /\ assessment_report = << >>
    /\ overall_score = 0
    /\ result = << >>
    /\ exc = "none"
    /\ engine = AssessmentEngine
    /\ hash_seed \in HashSeedsFor(interview_responses)
    /\ utcnow = 0
    /\ db = NoRows
    /\ UnitIdle

\* The first call has returned: its arguments and its report are kept in
\* args and ret, and the engine is called again.
CallAgain ==
    /\ pc = "returned"
    /\ fn = "none"
    /\ fn' = "conduct_comprehensive_assessment"
    /\ args' = [candidate_data |-> candidate_data,
                job_description |-> job_description,
                interview_responses |-> interview_responses]
    /\ ret' = result
    /\ returned' = TRUE
    /\ candidate_data' \in CandidateVariants(candidate_data)
    /\ interview_responses' \in InterviewVariants(interview_responses)
    /\ pc' = step_names[1]
    /\ assessment_report' = << >>
    /\ overall_score' = 0
    /\ result' = << >>
    /\ exc' = "none"
    /\ utcnow' = utcnow + 1
    /\ UNCHANGED <<job_description, engine, hash_seed, db>>

NextTwice == Next \/ CallAgain

SpecTwice == InitTwice /\ [][NextTwice]_vars

-----------------------------------------------------------------------------
(* SpecConcurrent: an invocation runs alone; then the same invocation runs *)
(* again on the same engine while one for another candidate runs, the two  *)
(* threads being switched between statements                               *)

\* An invocation: its arguments, its locals, its position, what it
\* returned
Invocation ==
    [candidate_data |-> candidate_data, job_description |-> job_description,
     interview_responses |-> interview_responses, pc |-> pc,
     assessment_report |-> assessment_report, overall_score |-> overall_score,
     result |-> result, exc |-> exc]

\* An invocation at its first statement
Called(cd, jd, ir) ==
    [candidate_data |-> cd, job_description |-> jd,
     interview_responses |-> ir, pc |-> step_names[1],
     assessment_report |-> << >>, overall_score |-> 0,
     result |-> << >>, exc |-> "none"]

\* The invocation `running` is the one the statements act on.
Resume(running) ==
    /\ candidate_data' = running.candidate_data
    /\ job_description' = running.job_description
    /\ interview_responses' = running.interview_responses
    /\ pc' = running.pc
    /\ assessment_report' = running.assessment_report
    /\ overall_score' = running.overall_score
    /\ result' = running.result
    /\ exc' = running.exc

ConcurrentCandidates ==
    {NoneValue,
     EmptyDict,
     FullCandidate,
     Put(FullCandidate, "extracted_experience",
         [total_years |-> PyInt(16), job_titles |-> << >>,
          employment_gaps |-> << <<20100, 20130>>, <<20150, 20190>> >>])}

ConcurrentInterviews ==
    {NoneValue, PyList(<<EmptyDict>>),
     PyList(<<[question |-> [category |-> "technical"],
               evaluation |->
                   [overall_score |-> Pts(95),
                    strengths |-> <<"Deep knowledge", "Brevity">>]]>>)}

InitConcurrent ==
    /\ candidate_data \in ConcurrentCandidates \ {NoneValue}
    /\ job_description = FullJob
    /\ interview_responses \in ConcurrentInterviews
    /\ pc = step_names[1]
    /\ assessment_report = << >>
    /\ overall_score = 0
    /\ result = << >>
    /\ exc = "none"
    /\ engine = AssessmentEngine
    /\ hash_seed \in HashSeedsFor(interview_responses)
    /\ utcnow = 0
    /\ db = NoRows
    /\ UnitIdle

\* The invocation that ran alone has returned; its report is kept in ret.
\* It is called again with the same arguments, and so is an invocation for
\* another candidate; either of the two runs first.
CallConcurrently ==
    /\ pc = "returned"
    /\ fn = "none"
    /\ fn' = "conduct_comprehensive_assessment"
    /\ ret' = result
    /\ returned' = TRUE
    /\ \E cd \in ConcurrentCandidates \ {candidate_data},
          ir \in ConcurrentInterviews \ {PyList(<<EmptyDict>>)},
          first_runs \in BOOLEAN :
          LET first == Called(candidate_data, job_description,
                              interview_responses)
              second == Called(cd, job_description, ir)
          IN  /\ Resume(IF first_runs THEN first ELSE second)
              /\ args' = [running |-> IF first_runs THEN "first" ELSE "second",
                          waiting |-> IF first_runs THEN second ELSE first,
                          candidate_data |-> candidate_data,
                          job_description |-> job_description,
                          interview_responses |-> interview_responses,
                          switches |-> 0]
    /\ utcnow' = utcnow + 1
    /\ UNCHANGED <<engine, hash_seed, db>>

\* The thread that runs is suspended between two statements and the other
\* one goes on.
Switch ==
    /\ fn = "conduct_comprehensive_assessment"
    /\ args.switches < MaxSwitches
    /\ args.waiting.pc # "returned"
    /\ Resume(args.waiting)
    /\ args' = [args EXCEPT
                  !.running = IF @ = "first" THEN "second" ELSE "first",
                  !.waiting = Invocation,
                  !.switches = @ + 1]
    /\ utcnow' = utcnow + 1
    /\ UNCHANGED <<fn, ret, returned, engine, hash_seed, db>>

NextConcurrent == Next \/ CallConcurrently \/ Switch

SpecConcurrent == InitConcurrent /\ [][NextConcurrent]_vars

-----------------------------------------------------------------------------
(* SpecCalls: a method of the engine called on one argument list after
   another *)

\* Years of experience from -1 to MaxYears, in steps of half a year
YearsRange ==
    {IF h % 2 = 0 THEN PyInt(h \div 2) ELSE PyFloat(5 * h) :
        h \in -2..(2 * MaxYears)}

\* The five levels of the table, a level that is not in it, no level
LevelSamples ==
    {[title |-> TEXT.software_engineer, experience_level |-> level] :
        level \in DOMAIN level_requirements \cup {"principal"}}
    \cup {[title |-> TEXT.software_engineer]}

\* Titles of the candidate: none, a blank one, plain ones
TitleSamples ==
    {<< >>, TEXT.blank, TEXT.software_engineer, TEXT.Lead_Software_Engineer,
     TEXT.Engineering_Manager}

\* Target roles: empty, blank, two words, three words, a word twice
RoleSamples ==
    {<< >>, TEXT.blank, TEXT.software_engineer,
     TEXT.Senior_Software_Engineer,
     TEXT.software_engineer \o <<" ">> \o TEXT.software_engineer}

\* Responses of two categories scored 60, 85 and 90, and one with neither
\* a question nor an evaluation
ScoredResponses ==
    {EmptyDict}
    \cup {[question |-> [category |-> category],
           evaluation |-> [overall_score |-> Pts(points)]] :
          category \in {"technical", "behavioral"}, points \in {60, 85, 90}}

\* The orders in which a list can be given
OrdersOf(l) ==
    {[i \in DOMAIN l |-> l[p[i]]] :
        p \in {q \in [DOMAIN l -> DOMAIN l] :
                  \A i, j \in DOMAIN l : q[i] = q[j] => i = j}}

InitCalls ==
    /\ \/ /\ fn = "_assess_interview_performance"
          /\ \E responses \in SeqsUpTo(ScoredResponses, MaxInterview) :
             \E permuted \in OrdersOf(responses) :
                args = [calls |-> <<[interview_responses |-> responses],
                                    [interview_responses |-> permuted]>>]
       \/ /\ fn = "_determine_hiring_recommendation"
          /\ \E risk_factors \in SeqsUpTo(RiskSamples, MaxRisks) :
                \/ \E scores \in OverallScoreSamples \X OverallScoreSamples :
                      args = [calls |->
                                [i \in DOMAIN scores |->
                                   [overall_score |-> scores[i],
                                    risk_factors |-> risk_factors]]]
                \/ \E score \in OverallScoreSamples :
                   \E added \in SeqsUpTo(RiskSamples, MaxAdded) :
                      args = [calls |->
                                <<[overall_score |-> score,
                                   risk_factors |-> risk_factors],
                                  [overall_score |-> score,
                                   risk_factors |-> risk_factors \o added]>>]
       \/ /\ fn = "_assess_experience_relevance"
          /\ \E jd \in LevelSamples :
             \E years \in YearsRange \X YearsRange :
                   args = [calls |->
                             [i \in DOMAIN years |->
                                [candidate_data |->
                                    [extracted_experience |->
                                        [total_years |-> years[i],
                                         job_titles |->
                                            <<TEXT.software_engineer>>]],
                                 job_description |-> jd]]]
       \/ /\ fn = "_calculate_role_relevance"
          /\ \E target_role \in RoleSamples :
             \E job_titles \in SeqsUpTo(TitleSamples, MaxTitles) :
                args \in {[calls |-> <<[job_titles |-> job_titles,
                                        target_role |-> target_role]>>]}
                         \cup {[calls |->
                                  <<[job_titles |-> job_titles,
                                     target_role |-> target_role],
                                    [job_titles |-> Append(job_titles, title),
                                     target_role |-> target_role]>>] :
                               title \in TitleSamples}
    /\ ret = << >>
    /\ returned = FALSE
    /\ EngineIdle

\* The next call of the sequence; a call that raises returns no value.
CallExperienceRelevance ==
    /\ fn = "_assess_experience_relevance"
    /\ Len(ret) < Len(args.calls)
    /\ LET call == args.calls[Len(ret) + 1]
       IN  ret' = Append(ret,
                    IF ExperienceRelevanceRaises(call.candidate_data,
                                                 call.job_description)
                    THEN [raised |-> "ZeroDivisionError", value |-> << >>]
                    ELSE [raised |-> "none",
                          value |-> _assess_experience_relevance(
                                        call.candidate_data,
                                        call.job_description)])
    /\ returned' = (Len(ret') = Len(args.calls))
    /\ UNCHANGED <<fn, args>>
    /\ UNCHANGED engineVars

CallRoleRelevance ==
    /\ fn = "_calculate_role_relevance"
    /\ Len(ret) < Len(args.calls)
    /\ LET call == args.calls[Len(ret) + 1]
       IN  ret' = Append(ret,
                    IF RoleRelevanceRaises(call.job_titles, call.target_role)
                    THEN [raised |-> "ZeroDivisionError", value |-> 0]
                    ELSE [raised |-> "none",
                          value |-> _calculate_role_relevance(
                                        call.job_titles, call.target_role)])
    /\ returned' = (Len(ret') = Len(args.calls))
    /\ UNCHANGED <<fn, args>>
    /\ UNCHANGED engineVars

CallInterviewPerformance ==
    /\ fn = "_assess_interview_performance"
    /\ Len(ret) < Len(args.calls)
    /\ LET call == args.calls[Len(ret) + 1]
       IN  ret' = Append(ret,
                    [raised |-> "none",
                     value |-> _assess_interview_performance(
                                   call.interview_responses)])
    /\ returned' = (Len(ret') = Len(args.calls))
    /\ UNCHANGED <<fn, args>>
    /\ UNCHANGED engineVars

CallDetermineHiringRecommendation ==
    /\ fn = "_determine_hiring_recommendation"
    /\ Len(ret) < Len(args.calls)
    /\ LET call == args.calls[Len(ret) + 1]
       IN  ret' = Append(ret,
                    [raised |-> "none",
                     value |-> _determine_hiring_recommendation(
                                   call.overall_score, call.risk_factors)])
    /\ returned' = (Len(ret') = Len(args.calls))
    /\ UNCHANGED <<fn, args>>
    /\ UNCHANGED engineVars

NextCalls ==
    \/ CallDetermineHiringRecommendation
    \/ CallExperienceRelevance
    \/ CallRoleRelevance
    \/ CallInterviewPerformance

SpecCalls == InitCalls /\ [][NextCalls]_vars

-----------------------------------------------------------------------------
(* SpecSession: the interview routes on one session (interview.py) *)

\* expires_at - started_at: timedelta(hours=2), the clock counting hours
SessionHours == 2

\* The token of the session that is started, and one no session has
Tokens == {"token-1", "token-2"}

\* db.query(InterviewSession).filter(session_token == ...).first()
FindSession(session_token) ==
    IF session_token \in DOMAIN db.interview_sessions
    THEN db.interview_sessions[session_token] ELSE NoneValue

\* The handler returns, or raises an HTTPException with this status code.
Respond(handler, request, response) ==
    /\ fn' = handler
    /\ args' = request
    /\ ret' = response
    /\ returned' = TRUE

\* Assignments to the session row followed by db.commit()
CommitSession(session_token, session) ==
    db' = [db EXCEPT !.interview_sessions[session_token] = session]

InitSession ==
    /\ fn = "none"
    /\ args = << >>
    /\ ret = << >>
    /\ returned = FALSE
    /\ EngineIdle

\* Lines 51-137; len(questions) is what the question generator gave.
start_interview_session ==
    /\ db.interview_sessions = << >>
    /\ \E total_questions \in 0..MaxQuestions :
          /\ db' = [interview_sessions |->
                       [t \in {"token-1"} |->
                          [assessment_id |-> 1,
                           session_token |-> "token-1",
                           current_question_index |-> 0,
                           total_questions |-> total_questions,
                           status |-> "active",
                           started_at |-> utcnow,
                           completed_at |-> NoneValue,
                           expires_at |-> utcnow + SessionHours,
                           questions_data |->
                               [i \in 1..total_questions |->
                                  [question_number |-> i]],
                           responses_data |-> << >>]],
                    assessments |->
                       [a \in {1} |-> [status |-> "in_progress",
                                       interview_responses |-> << >>]]]
          /\ Respond("start_interview_session",
                     [assessment_id |-> 1],
                     [status_code |-> 200, session_token |-> "token-1",
                      total_questions |-> total_questions])
    /\ UNCHANGED <<assessmentVars, utcnow>>

\* Lines 139-184
get_interview_session ==
    \E session_token \in Tokens :
       LET session == FindSession(session_token)
           request == [session_token |-> session_token]
       IN  /\ IF IsNone(session)
              THEN /\ Respond("get_interview_session", request,
                              [status_code |-> 404])
                   /\ UNCHANGED db
              ELSE IF utcnow > session.expires_at
              THEN /\ CommitSession(session_token,
                                    [session EXCEPT !.status = "expired"])
                   /\ Respond("get_interview_session", request,
                              [status_code |-> 410])
              ELSE /\ Respond("get_interview_session", request,
                              [status_code |-> 200,
                               status |-> session.status,
                               current_question_index |->
                                   session.current_question_index,
                               completed |-> Len(session.responses_data),
                               remaining |->
                                   session.total_questions
                                     - Len(session.responses_data)])
                   /\ UNCHANGED db
           /\ UNCHANGED <<assessmentVars, utcnow>>

\* questions[question_id] is evaluated: an index from len(questions) on is
\* refused at line 216, one below -len(questions) raises IndexError, and
\* -len(questions) .. -1 count from the end of the list.
ValidQuestionId(question_id, questions) ==
    /\ question_id < Len(questions)
    /\ question_id >= -Len(questions)

\* questions[question_id]
QuestionAt(questions, question_id) ==
    IF question_id >= 0 THEN questions[question_id + 1]
    ELSE questions[Len(questions) + question_id + 1]

\* Lines 186-289; the HTTPException of line 217 is raised inside the try
\* and leaves as the 500 of line 289, as does an IndexError.  The
\* evaluation that InterviewSimulator.evaluate_response computes is stored
\* with the response and is not part of this model.
submit_answer ==
    \E session_token \in Tokens :
    \E question_id \in (-MaxQuestions)..MaxQuestions :
       LET session == FindSession(session_token)
           request == [session_token |-> session_token,
                       question_id |-> question_id]
       IN  /\ IF IsNone(session)
              THEN /\ Respond("submit_answer", request, [status_code |-> 404])
                   /\ UNCHANGED db
              ELSE IF session.status # "active"
              THEN /\ Respond("submit_answer", request, [status_code |-> 400])
                   /\ UNCHANGED db
              ELSE IF utcnow > session.expires_at
              THEN /\ CommitSession(session_token,
                                    [session EXCEPT !.status = "expired"])
                   /\ Respond("submit_answer", request, [status_code |-> 410])
              ELSE IF ~ValidQuestionId(question_id, session.questions_data)
              THEN /\ Respond("submit_answer", request, [status_code |-> 500])
                   /\ UNCHANGED db
              ELSE
                LET responses ==
                        Append(session.responses_data,
                               [question_id |-> question_id,
                                question |-> QuestionAt(session.questions_data,
                                                        question_id),
                                submitted_at |-> utcnow])
                    complete == question_id + 1 >= session.total_questions
                    answered ==
                        [session EXCEPT
                           !.responses_data = responses,
                           !.current_question_index = question_id + 1,
                           !.status = IF complete THEN "completed" ELSE @,
                           !.completed_at =
                               IF complete
                               THEN [py |-> "datetime", hour |-> utcnow]
                               ELSE @]
                IN  /\ Len(session.responses_data) < MaxAnswers
                    /\ db' = [interview_sessions |->
                                 [db.interview_sessions EXCEPT
                                    ![session_token] = answered],
                              assessments |->
                                 IF complete
                                 THEN [db.assessments EXCEPT
                                         ![session.assessment_id] =
                                            [status |-> "completed",
                                             interview_responses |->
                                                 responses]]
                                 ELSE db.assessments]
                    /\ Respond("submit_answer", request,
                               [status_code |-> 200,
                                completed |-> Len(responses),
                                remaining |->
                                    session.total_questions - Len(responses),
                                session_complete |-> complete])
           /\ UNCHANGED <<assessmentVars, utcnow>>

\* Lines 291-314
pause_interview_session ==
    \E session_token \in Tokens :
       LET session == FindSession(session_token)
           request == [session_token |-> session_token]
       IN  /\ IF IsNone(session)
              THEN /\ Respond("pause_interview_session", request,
                              [status_code |-> 404])
                   /\ UNCHANGED db
              ELSE IF session.status # "active"
              THEN /\ Respond("pause_interview_session", request,
                              [status_code |-> 400])
                   /\ UNCHANGED db
              ELSE /\ CommitSession(session_token,
                                    [session EXCEPT !.status = "paused"])
                   /\ Respond("pause_interview_session", request,
                              [status_code |-> 200])
           /\ UNCHANGED <<assessmentVars, utcnow>>

\* Lines 316-345
resume_interview_session ==
    \E session_token \in Tokens :
       LET session == FindSession(session_token)
           request == [session_token |-> session_token]
       IN  /\ IF IsNone(session)
              THEN /\ Respond("resume_interview_session", request,
                              [status_code |-> 404])
                   /\ UNCHANGED db
              ELSE IF session.status # "paused"
              THEN /\ Respond("resume_interview_session", request,
                              [status_code |-> 400])
                   /\ UNCHANGED db
              ELSE IF utcnow > session.expires_at
              THEN /\ CommitSession(session_token,
                                    [session EXCEPT !.status = "expired"])
                   /\ Respond("resume_interview_session", request,
                              [status_code |-> 410])
              ELSE /\ CommitSession(session_token,
                                    [session EXCEPT !.status = "active"])
                   /\ Respond("resume_interview_session", request,
                              [status_code |-> 200])
           /\ UNCHANGED <<assessmentVars, utcnow>>

\* Lines 347-402
get_interview_results ==
    \E session_token \in Tokens :
       LET session == FindSession(session_token)
           request == [session_token |-> session_token]
       IN  /\ Respond("get_interview_results", request,
                      IF IsNone(session) THEN [status_code |-> 404]
                      ELSE IF session.status # "completed"
                      THEN [status_code |-> 400]
                      ELSE [status_code |-> 200,
                            total_questions |-> session.total_questions,
                            completed_questions |->
                                Len(session.responses_data)])
           /\ UNCHANGED <<assessmentVars, utcnow, db>>

\* An hour passes between two requests.
Tick ==
    /\ utcnow < MaxClock
    /\ utcnow' = utcnow + 1
    /\ UNCHANGED <<assessmentVars, db>>
    /\ UNCHANGED unitVars

NextSession ==
    \/ start_interview_session
    \/ get_interview_session
    \/ submit_answer
    \/ pause_interview_session
    \/ resume_interview_session
    \/ get_interview_results
    \/ Tick

SpecSession == InitSession /\ [][NextSession]_vars

-----------------------------------------------------------------------------
(* Claims about the aggregation and recommendation functions (SpecScore) *)

OverallReturned == fn = "_calculate_overall_score" /\ returned
HiringReturned == fn = "_determine_hiring_recommendation" /\ returned

WeightIfPresent(cs, c, w) == IF c \in DOMAIN cs THEN w ELSE 0
TermIfPresent(cs, c, w) == IF c \in DOMAIN cs THEN w * ScoreOf(cs[c]) ELSE 0

\* C2: _calculate_overall_score returns sum(weight_i * score_i) /
\* sum(weight_i) over the weighted components present in the map (weights
\* .30, .25, .35, .10), rounded to two decimals; with only resume_analysis
\* = 80 and skill_match = 60 it returns 70.91, not 39.
C2_Renormalized ==
    OverallReturned =>
      LET cs == args.component_scores
          W == WeightIfPresent(cs, "resume_analysis", 30)
               + WeightIfPresent(cs, "skill_match", 25)
               + WeightIfPresent(cs, "interview_performance", 35)
               + WeightIfPresent(cs, "experience_relevance", 10)
          S == TermIfPresent(cs, "resume_analysis", 30)
               + TermIfPresent(cs, "skill_match", 25)
               + TermIfPresent(cs, "interview_performance", 35)
               + TermIfPresent(cs, "experience_relevance", 10)
      IN  /\ W > 0 =>
               /\ ret % 3 = 0
               /\ 2 * (ret * W - S) <= 3 * W
               /\ 2 * (S - ret * W) <= 3 * W
          /\ cs = [resume_analysis |-> [overall_score |-> Pts(80)],
                   skill_match |-> [overall_score |-> Pts(60)]]
               => ret = 3 * 7091

C2_Witness ==
    /\ OverallReturned
    /\ args.component_scores =
          [resume_analysis |-> [overall_score |-> Pts(80)],
           skill_match |-> [overall_score |-> Pts(60)]]
    /\ ret = 3 * 7091

\* C3: _determine_hiring_recommendation returns the tier of the score
\* (strong_hire from 85, hire from 70, maybe from 55, else no_hire) when
\* fewer than two risks have severity high, and exactly the next lower tier
\* (no_hire staying no_hire) when two or more have, however many.
C3_TierAndDowngrade ==
    HiringReturned =>
      LET score == args.overall_score
          highs == {i \in DOMAIN args.risk_factors :
                       args.risk_factors[i].severity = "high"}
          tier == CASE score >= 85 * 300 -> 4
                    [] score >= 70 * 300 /\ score < 85 * 300 -> 3
                    [] score >= 55 * 300 /\ score < 70 * 300 -> 2
                    [] score < 55 * 300 -> 1
          name == <<"no_hire", "maybe", "hire", "strong_hire">>
      IN  IF Cardinality(highs) < 2
          THEN ret = name[tier]
          ELSE ret = name[IF tier = 1 THEN 1 ELSE tier - 1]

C3_Witness ==
    /\ HiringReturned
    /\ args.overall_score = Pts(90)
    /\ HighRiskCount(args.risk_factors) = 3
    /\ ret = "hire"

-----------------------------------------------------------------------------
(* Claims about conduct_comprehensive_assessment (Spec, SpecTwice) *)

Returned == pc = "returned"

\* The report is the one built by the try block, not the fallback.
FullReport == Returned /\ "candidate_id" \in DOMAIN result

\* None for a dict argument, None in the list of responses, total_years
\* None, an employment gap that is not a pair, a responsibility None
MalformedInput ==
    \/ IsNone(candidate_data)
    \/ IsNone(job_description)
    \/ /\ ~IsNone(interview_responses)
       /\ \E i \in DOMAIN interview_responses.items :
             IsNone(interview_responses.items[i])
    \/ /\ ~IsNone(candidate_data)
       /\ "extracted_experience" \in DOMAIN candidate_data
       /\ LET e == candidate_data.extracted_experience
          IN  \/ IsNone(Get(e, "total_years", PyInt(0)))
              \/ \E i \in DOMAIN Get(e, "employment_gaps", << >>) :
                    Len(e.employment_gaps[i]) # 2
              \/ \E i \in DOMAIN Get(e, "responsibilities", << >>) :
                    IsNone(e.responsibilities[i])

\* C1: conduct_comprehensive_assessment never raises: what a statement
\* throws is of a class that `except Exception` catches, and the call has
\* returned as soon as it is thrown; when a statement throws
\* (as one does on every malformed input) the value returned is the fallback
\* report (overall_score 50, three component scores of 50, one risk of type
\* technical_error and severity high, manual_review, confidence 20) and
\* carries nothing of the report under construction; otherwise it is the
\* report with all its fields filled in.
C1_FallbackOrFull ==
    /\ pc \in Elems(step_names) \cup {"returned"}
    /\ exc \in {"none", "AttributeError", "TypeError", "ZeroDivisionError",
                "ValueError"}
    /\ exc # "none" => Returned
    /\ Returned =>
         IF exc # "none" \/ MalformedInput
         THEN /\ DOMAIN result =
                    {"overall_score", "component_scores", "detailed_analysis",
                     "recommendations", "risk_factors", "strengths",
                     "development_areas", "hiring_recommendation",
                     "confidence_level"}
              /\ result.overall_score = 50 * 300
              /\ result.component_scores =
                    [resume_analysis |-> [overall_score |-> 50 * 300],
                     skill_match |-> [overall_score |-> 50 * 300],
                     experience_relevance |-> [overall_score |-> 50 * 300]]
              /\ Len(result.risk_factors) = 1
              /\ result.risk_factors[1].type = "technical_error"
              /\ result.risk_factors[1].severity = "high"
              /\ result.hiring_recommendation = "manual_review"
              /\ result.confidence_level = 20 * 300
         ELSE /\ result = assessment_report
              /\ {"resume_analysis", "skill_match", "experience_relevance",
                  "cultural_fit"} \subseteq DOMAIN result.component_scores
              /\ DOMAIN result.detailed_analysis # {}
              /\ DOMAIN result.recommendations # {}

\* A statement threw after nine of them had filled the report in.
C1_Witness ==
    /\ Returned
    /\ exc = "ValueError"
    /\ "cultural_fit" \in DOMAIN assessment_report.component_scores
    /\ result.hiring_recommendation = "manual_review"
    /\ result.overall_score = 50 * 300

TierRank(name) ==
    CASE name = "strong_hire" -> 4
      [] name = "hire" -> 3
      [] name = "maybe" -> 2
      [] name = "no_hire" -> 1
      [] OTHER -> 0

ScoreTierRank(score) ==
    IF score >= 85 * 300 THEN 4
    ELSE IF score >= 70 * 300 THEN 3
    ELSE IF score >= 55 * 300 THEN 2
    ELSE 1

HighRisks(report) ==
    {i \in DOMAIN report.risk_factors : report.risk_factors[i].severity = "high"}

\* C4 as stated: in every report with two or more risks of severity high
\* the hiring_recommendation is at least one tier below the tier of the
\* overall_score, whatever that tier, no_hire included.
C4_StrictlyBelow ==
    (Returned /\ Cardinality(HighRisks(result)) >= 2) =>
        TierRank(result.hiring_recommendation) < ScoreTierRank(result.overall_score)

\* C4: in every report with two or more risks of severity high the
\* hiring_recommendation is one tier below the tier of the overall_score
\* when that tier is strong_hire, hire or maybe, and is no_hire when that
\* tier is no_hire.
C4_BelowOrFloor ==
    (Returned /\ Cardinality(HighRisks(result)) >= 2) =>
        IF ScoreTierRank(result.overall_score) = 1
        THEN result.hiring_recommendation = "no_hire"
        ELSE TierRank(result.hiring_recommendation)
                = ScoreTierRank(result.overall_score) - 1

C4_Witness ==
    /\ Returned
    /\ Cardinality(HighRisks(result)) >= 2
    /\ result.overall_score >= 70 * 300
    /\ result.hiring_recommendation = "maybe"

InRange(x) == 0 <= x /\ x <= 100 * 300

\* C5: every score of a report lies in [0,100]: the sub-scores of
\* resume_analysis and experience_relevance, skill_depth, the overall_score
\* of each component, the report's overall_score and confidence_level.
C5_ScoresInRange ==
    FullReport =>
        LET cs == result.component_scores
        IN  /\ \A c \in DOMAIN cs : InRange(cs[c].overall_score)
            /\ \A k \in DOMAIN cs.resume_analysis.component_scores :
                  InRange(cs.resume_analysis.component_scores[k])
            /\ \A k \in DOMAIN cs.experience_relevance.component_scores :
                  InRange(cs.experience_relevance.component_scores[k])
            /\ InRange(cs.skill_match.skill_depth_score)
            /\ InRange(result.overall_score)
            /\ InRange(result.confidence_level)

\* The second call has returned.
BothReturned == Returned /\ fn = "conduct_comprehensive_assessment"

\* C6: two calls whose arguments differ only in the responsibilities texts
\* and in each evaluation's scores.communication_clarity and feedback
\* return the same overall_score and the same hiring_recommendation, and
\* the overall_score is the weighted mean of the four weighted components
\* alone, to the nearest hundredth.
C6_CulturalFitApart ==
    BothReturned =>
        /\ result.overall_score = ret.overall_score
        /\ result.hiring_recommendation = ret.hiring_recommendation
        /\ FullReport =>
             LET cs == result.component_scores
                 W == 30 + 25 + 10 + WeightIfPresent(cs, "interview_performance", 35)
                 S == 30 * cs.resume_analysis.overall_score
                      + 25 * cs.skill_match.overall_score
                      + 10 * cs.experience_relevance.overall_score
                      + TermIfPresent(cs, "interview_performance", 35)
             IN  /\ 2 * (result.overall_score * W - S) <= 3 * W
                 /\ 2 * (S - result.overall_score * W) <= 3 * W

\* The two calls differ in their cultural_fit score by ten points or more.
C6_Witness ==
    /\ BothReturned
    /\ FullReport
    /\ ret.component_scores.cultural_fit.overall_score
          - result.component_scores.cultural_fit.overall_score >= 10 * 300
    /\ result.overall_score = ret.overall_score

-----------------------------------------------------------------------------
(* Claims about calculate_job_match_score and _skills_match (SpecMatch) *)

MatchReturned == fn = "calculate_job_match_score" /\ returned

\* C8: calculate_job_match_score splits the required list into matched and
\* missing, each required skill in exactly one of them and both in the
\* original order; match_score is 100 * len(matched) / len(required) to two
\* decimals; an empty required list gives match_score 0 and missing = [];
\* no candidate skill against ["python"] gives 0 and missing ["python"].
C8_MatchPartition ==
    MatchReturned =>
      LET req == args.job_requirements
          InMatched(r) == r \in Elems(ret.matched_skills)
          InMissing(r) == r \in Elems(ret.missing_skills)
      IN  /\ Elems(ret.matched_skills) \cap Elems(ret.missing_skills) = {}
          /\ Elems(ret.matched_skills) \cup Elems(ret.missing_skills) = Elems(req)
          /\ ret.matched_skills = SelectSeq(req, InMatched)
          /\ ret.missing_skills = SelectSeq(req, InMissing)
          /\ req # << >> =>
               /\ ret.match_score % 3 = 0
               /\ LET d == ret.match_score * Len(req)
                           - Pts(100) * Len(ret.matched_skills)
                  IN  2 * d <= 3 * Len(req) /\ -2 * d <= 3 * Len(req)
          /\ req = << >> => ret.match_score = 0 /\ ret.missing_skills = << >>
          /\ (args.candidate_skills = << >> /\ req = <<SKILL.python>>) =>
               ret.match_score = 0 /\ ret.missing_skills = <<SKILL.python>>

C8_Witness ==
    /\ MatchReturned
    /\ Len(ret.matched_skills) = 1
    /\ Len(ret.missing_skills) = 1
    /\ ret.match_score = Pts(50)

\* C9: for every input, the empty required list included, the result of
\* calculate_job_match_score carries match_score, matched_skills,
\* missing_skills, total_required and total_matched, the totals being the
\* lengths of the required and of the matched list.
C9_FiveFields ==
    MatchReturned =>
      /\ DOMAIN ret = {"match_score", "matched_skills", "missing_skills",
                       "total_required", "total_matched"}
      /\ ret.total_required = Len(args.job_requirements)
      /\ ret.total_matched = Len(ret.matched_skills)

\* The unordered (main skill, alias) pairs of the synonym table.
SynonymPairs ==
    {{m, variations[m][i]} : <<m, i>> \in
        {<<m, i>> \in (DOMAIN variations) \X (1..3) : i <= Len(variations[m])}}

Related(a, b) ==
    \/ a = b
    \/ IsSubstring(a, b)
    \/ IsSubstring(b, a)
    \/ {a, b} \in SynonymPairs

\* C10: a required skill is matched iff some candidate skill, compared
\* case-insensitively, equals it, contains it or is contained in it, or is
\* its synonym in either direction; _skills_match is symmetric; ["js"]
\* against ["javascript"] scores 100.
C10_MatchRelation ==
    MatchReturned =>
      LET req == args.job_requirements
          cand == args.candidate_skills
      IN  /\ \A i \in DOMAIN req :
                (req[i] \in Elems(ret.matched_skills)) <=>
                (\E j \in DOMAIN cand : Related(Lower(cand[j]), Lower(req[i])))
          /\ \A a \in SkillNames \cup Elems(cand), b \in SkillNames \cup Elems(req) :
                /\ _skills_match(a, b) = _skills_match(b, a)
                /\ _skills_match(Lower(a), Lower(b)) = _skills_match(Lower(b), Lower(a))
          /\ (cand = <<SKILL.js>> /\ req = <<SKILL.javascript>>) =>
                ret.match_score = Pts(100)

C10_Witness ==
    /\ MatchReturned
    /\ args.candidate_skills = <<SKILL.js>>
    /\ args.job_requirements = <<SKILL.javascript>>
    /\ ret.matched_skills = <<SKILL.javascript>>

-----------------------------------------------------------------------------
(* The risk detector inside the pipeline *)

\* The total_years of the candidate, 0 when absent (line 275)
TotalYears ==
    Get(Get(candidate_data, "extracted_experience", EmptyDict),
        "total_years", PyInt(0))

\* The years string formatted from the candidate's total_years does not
\* begin with an integer literal (as "15.5 years ..." does not).
YearsStringMalformed ==
    /\ ~IsNone(candidate_data)
    /\ ~IsNone(TotalYears)
    /\ IntRaises(YearsToStr(TotalYears))

\* The risks of one type in the returned report, in order
RisksOfType(type) ==
    LET OfType(risk) == risk.type = type
    IN  SelectSeq(result.risk_factors, OfType)

\* C11 as stated: a years string whose first token is not an integer makes
\* the call return the fallback report.
C11_ParseFailureFallsBack ==
    (Returned /\ YearsStringMalformed) => result = _get_fallback_assessment

\* C11: a years string whose first token is not an integer does not make
\* conduct_comprehensive_assessment return the fallback report: the parse
\* failure never reaches the handler of the call, and unless another
\* statement throws (on an ill-typed input, or dividing by the zero words of
\* a blank job title) the call returns the full report without raising.
C11_ParseFailureNoFallback ==
    (Returned /\ YearsStringMalformed /\ ~MalformedInput
       /\ exc # "ZeroDivisionError") =>
      /\ exc = "none"
      /\ FullReport
      /\ result.hiring_recommendation
            \in {"strong_hire", "hire", "maybe", "no_hire"}
      /\ YearsParseException(YearsInfo(result.component_scores)) = "ValueError"

C11_Witness ==
    /\ FullReport
    /\ YearsStringMalformed
    /\ TotalYears = PyFloat(155)
    /\ exc = "none"

\* The employment gaps of the candidate, in tenths of a year
EmploymentGaps ==
    Get(Get(candidate_data, "extracted_experience", EmptyDict),
        "employment_gaps", << >>)

\* The gaps of a list that are longer than n tenths of a year
GapsLongerThan(gaps, n) ==
    LET Longer(gap) == gap[2] - gap[1] > n
    IN  SelectSeq(gaps, Longer)

\* C12: when the years cannot be parsed out of the years_vs_requirement
\* string, the failure stays inside the risk detector: the report is the
\* full one, it has no overqualification risk, and the other checks have
\* run: one gap risk per gap of more than a year, the skill-gap risk when
\* required skills are missing, the interview risk when the interview score
\* is under 60, and nothing else.
C12_ParseFailureSwallowed ==
    (Returned /\ exc = "none" /\ YearsStringMalformed) =>
      /\ FullReport
      /\ RisksOfType("overqualification") = << >>
      /\ Len(RisksOfType("employment_gap"))
            = Len(GapsLongerThan(EmploymentGaps, 10))
      /\ Len(RisksOfType("skill_gap"))
            = IF result.component_scores.skill_match.required_skills_match
                       .missing_skills # << >>
              THEN 1 ELSE 0
      /\ Len(RisksOfType("interview_performance"))
            = IF /\ "interview_performance" \in DOMAIN result.component_scores
                 /\ result.component_scores.interview_performance.overall_score
                       < Pts(60)
              THEN 1 ELSE 0
      /\ Len(result.risk_factors)
            = Len(RisksOfType("employment_gap")) + Len(RisksOfType("skill_gap"))
                + Len(RisksOfType("interview_performance"))

C12_Witness ==
    /\ FullReport
    /\ YearsStringMalformed
    /\ Len(RisksOfType("employment_gap")) = 2
    /\ Len(RisksOfType("skill_gap")) = 1
    /\ Len(RisksOfType("interview_performance")) = 1

\* C13: a full report has exactly one overqualification risk, of severity
\* low, when the candidate's total_years, whole or fractional, is more than
\* 15, and none when it is 15 or less.
C13_OverqualifiedAbove15 ==
    (FullReport /\ ~IsNone(TotalYears)) =>
      IF TotalYears.tenths > 150
      THEN /\ Len(RisksOfType("overqualification")) = 1
           /\ RisksOfType("overqualification")[1].severity = "low"
      ELSE RisksOfType("overqualification") = << >>

-----------------------------------------------------------------------------
(* _identify_risk_factors called on its own *)

RisksReturned ==
    /\ fn = "_identify_risk_factors"
    /\ returned
    /\ ret.raised = "none"

\* The risks of one type in the list returned, in order
ReturnedRisksOfType(type) ==
    LET OfType(risk) == risk.type = type
    IN  SelectSeq(ret.value, OfType)

\* C14: the list returned has, in the order of the intervals, one
\* employment_gap risk for each interval whose length end - start is more
\* than 1 year and none for an interval of 1 year or less; the severity is
\* medium for a length of at most 2 years and high above: a gap of exactly
\* 1 year is not flagged, 1.1 and exactly 2 years are medium, 2.1 and 3
\* years are high.
C14_GapRisks ==
    RisksReturned =>
      LET gaps == Get(Get(args.candidate_data, "extracted_experience",
                          EmptyDict), "employment_gaps", << >>)
          long == GapsLongerThan(gaps, 10)
          risks == ReturnedRisksOfType("employment_gap")
      IN  /\ Len(risks) = Len(long)
          /\ \A i \in DOMAIN risks :
                /\ long[i][2] - long[i][1] \in {11, 20} =>
                      risks[i].severity = "medium"
                /\ long[i][2] - long[i][1] \in {21, 30} =>
                      risks[i].severity = "high"
                /\ risks[i].severity \in {"medium", "high"}
                /\ risks[i].severity = "high" <=> long[i][2] - long[i][1] > 20
          /\ (\A i \in DOMAIN gaps : gaps[i][2] - gaps[i][1] \in {5, 10}) =>
                risks = << >>

C14_Witness ==
    /\ RisksReturned
    /\ args.candidate_data =
          [extracted_experience |->
              [employment_gaps |-> <<<<20100, 20120>>, <<20100, 20130>>>>]]
    /\ Len(ReturnedRisksOfType("employment_gap")) = 2
    /\ ReturnedRisksOfType("employment_gap")[1].severity = "medium"
    /\ ReturnedRisksOfType("employment_gap")[2].severity = "high"

\* C15: the list returned has exactly one skill_gap risk, of severity
\* medium, when the skill-match component is a dict whose list of missing
\* required skills is non-empty, whatever the number of missing skills, and
\* no skill_gap risk when that list is empty or absent.
C15_OneSkillGapRisk ==
    RisksReturned =>
      LET cs == args.component_scores
          missing ==
              IF /\ "skill_match" \in DOMAIN cs
                 /\ "required_skills_match" \in DOMAIN cs.skill_match
              THEN cs.skill_match.required_skills_match.missing_skills
              ELSE << >>
          risks == ReturnedRisksOfType("skill_gap")
      IN  IF missing # << >>
          THEN Len(risks) = 1 /\ risks[1].severity = "medium"
          ELSE risks = << >>

C15_Witness ==
    /\ RisksReturned
    /\ "skill_match" \in DOMAIN args.component_scores
    /\ "required_skills_match" \in DOMAIN args.component_scores.skill_match
    /\ Len(args.component_scores.skill_match.required_skills_match
               .missing_skills) = 4
    /\ Len(ReturnedRisksOfType("skill_gap")) = 1

\* C16: the list returned has exactly one interview_performance risk, of
\* severity high, when the map has an interview_performance component
\* whose overall_score is under 60, and none otherwise: none when the map
\* has no interview component, none at 60. Likewise it has no skill_gap
\* risk when the map has no skill_match component and no overqualification
\* risk when it has no experience_relevance component.
C16_InterviewRiskIfPresent ==
    RisksReturned =>
      LET cs == args.component_scores
          risks == ReturnedRisksOfType("interview_performance")
      IN  /\ IF /\ "interview_performance" \in DOMAIN cs
                /\ "overall_score" \in DOMAIN cs.interview_performance
                /\ cs.interview_performance.overall_score < Pts(60)
             THEN Len(risks) = 1 /\ risks[1].severity = "high"
             ELSE risks = << >>
          /\ "skill_match" \notin DOMAIN cs =>
                ReturnedRisksOfType("skill_gap") = << >>
          /\ "experience_relevance" \notin DOMAIN cs =>
                ReturnedRisksOfType("overqualification") = << >>

C16_Witness ==
    /\ RisksReturned
    /\ "interview_performance" \in DOMAIN args.component_scores
    /\ args.component_scores.interview_performance
          = [overall_score |-> Pts(60) - 3]
    /\ Len(ReturnedRisksOfType("interview_performance")) = 1

-----------------------------------------------------------------------------
(* _extract_strengths_and_development_areas called on its own *)

StrengthsReturned ==
    /\ fn = "_extract_strengths_and_development_areas"
    /\ returned

\* The components of the argument among those of a list, in the order of
\* the list, whose score (0 when the dict has none) satisfies a test; a
\* component that is a bare number has no score.
ComponentsWhere(order, Test(_)) ==
    LET cs == args.component_scores
        Selected(c) == /\ "num" \notin DOMAIN cs[c]
                       /\ Test(IF "overall_score" \in DOMAIN cs[c]
                               THEN cs[c].overall_score ELSE 0)
    IN  SelectSeq(KeysIn(order, cs), Selected)

AtLeast80(score) == score >= Pts(80)
Below60(score) == score < Pts(60)

\* The components that have a strength and a development-area template
TemplatedComponents ==
    <<"resume_analysis", "skill_match", "experience_relevance",
      "interview_performance">>

StrengthText ==
    [resume_analysis |-> "Well-structured professional profile",
     skill_match |-> "Strong technical skill alignment",
     experience_relevance |-> "Highly relevant experience",
     interview_performance |-> "Excellent interview performance"]

DevelopmentText ==
    [resume_analysis |-> "Professional presentation could be enhanced",
     skill_match |-> "Technical skills gap in key areas",
     experience_relevance |-> "Limited relevant experience",
     interview_performance |-> "Interview communication needs improvement"]

\* C17 as stated: one strength per component of the map with a score of at
\* least 80, one development area per component with a score under 60.
C17_EveryComponent ==
    StrengthsReturned =>
      /\ Len(ret[1]) = Len(ComponentsWhere(component_order, AtLeast80))
      /\ Len(ret[2]) = Len(ComponentsWhere(component_order, Below60))

\* C17: strengths holds, in the order resume_analysis, skill_match,
\* experience_relevance, interview_performance in which the report gets its
\* components, the template of each of these four whose score is at least
\* 80, with the score; development_areas the template of each of the four
\* whose score is under 60 (a dict without a score counts as 0); a score in
\* [60, 80) contributes to neither list, no component to both, cultural_fit
\* and bare numbers to none; each list has at most 5 entries.
C17_FourComponents ==
    StrengthsReturned =>
      LET strong == ComponentsWhere(TemplatedComponents, AtLeast80)
          weak == ComponentsWhere(TemplatedComponents, Below60)
      IN  /\ ret[1] = [i \in DOMAIN strong |->
                         <<StrengthText[strong[i]],
                           args.component_scores[strong[i]].overall_score>>]
          /\ ret[2] = [i \in DOMAIN weak |-> DevelopmentText[weak[i]]]
          /\ Elems(strong) \cap Elems(weak) = {}
          /\ Len(ret[1]) <= 5
          /\ Len(ret[2]) <= 5

C17_Witness ==
    /\ StrengthsReturned
    /\ DOMAIN args.component_scores = Elems(component_order)
    /\ args.component_scores.cultural_fit = [overall_score |-> Pts(80)]
    /\ args.component_scores.skill_match = [overall_score |-> Pts(80) - 3]
    /\ Len(ret[1]) = 2
    /\ ret[2] = <<"Interview communication needs improvement">>

-----------------------------------------------------------------------------
(* Two calls on the same arguments *)

\* The second call has returned and its arguments were those of the first.
SameArguments ==
    /\ BothReturned
    /\ args = [candidate_data |-> candidate_data,
               job_description |-> job_description,
               interview_responses |-> interview_responses]

WithoutTimestamp(report) ==
    [key \in DOMAIN report \ {"assessment_timestamp"} |-> report[key]]

-----------------------------------------------------------------------------
(* Optional keys left out (SpecOptional) *)

\* C19: whatever optional keys are missing from the candidate (email,
\* resume_text, extracted_skills, extracted_experience, extracted_education
\* and the keys inside them) and from the job (title, required_skills,
\* preferred_skills, experience_level), both dicts empty included, no
\* statement throws and the call returns a full report whose
\* hiring_recommendation is one of the four tiers; what is missing counts
\* as zero or as its default: no skills give skill_diversity 0, no
\* experience experience_depth 0 and role_relevance 50, no education
\* education_relevance 40, no resume text presentation_quality 70, no
\* required skills a match score of 0 and nothing missing; two empty dicts
\* give 16.23 and no_hire.
C19_DefaultsNoFallback ==
    /\ exc = "none"
    /\ Returned =>
         /\ FullReport
         /\ result.hiring_recommendation
               \in {"strong_hire", "hire", "maybe", "no_hire"}
         /\ LET cs == result.component_scores
                resume == cs.resume_analysis.component_scores
                experience == cs.experience_relevance.component_scores
            IN  /\ "extracted_skills" \notin DOMAIN candidate_data =>
                      /\ resume.skill_diversity = 0
                      /\ cs.skill_match.required_skills_match.match_score = 0
                /\ "extracted_experience" \notin DOMAIN candidate_data =>
                      /\ resume.experience_depth = 0
                      /\ experience.role_relevance = Pts(50)
                      /\ result.risk_factors
                            = RisksOfType("skill_gap")
                                \o RisksOfType("interview_performance")
                /\ "extracted_education" \notin DOMAIN candidate_data =>
                      resume.education_relevance = Pts(40)
                /\ "resume_text" \notin DOMAIN candidate_data =>
                      resume.presentation_quality = Pts(70)
                /\ "required_skills" \notin DOMAIN job_description =>
                      /\ cs.skill_match.required_skills_match.match_score = 0
                      /\ cs.skill_match.required_skills_match.missing_skills
                            = << >>
                /\ "title" \notin DOMAIN job_description =>
                      experience.role_relevance = Pts(50)
                /\ (candidate_data = EmptyDict /\ job_description = EmptyDict
                      /\ IsNone(interview_responses)) =>
                      /\ result.overall_score = 1623 * 3
                      /\ result.hiring_recommendation = "no_hire"

C19_Witness ==
    /\ FullReport
    /\ candidate_data = EmptyDict
    /\ job_description = EmptyDict
    /\ result.overall_score = 1623 * 3

-----------------------------------------------------------------------------
(* Concurrent invocations on one engine (SpecConcurrent) *)

Concurrently == fn = "conduct_comprehensive_assessment"

\* The invocation that repeats the one that ran alone
FirstInvocation == IF args.running = "first" THEN Invocation ELSE args.waiting

-----------------------------------------------------------------------------
(* Confidence and the interview component (Spec) *)

\* C21: the +20 term of confidence_level is applied exactly when the
\* interview_performance component is among the scored components: a
\* report whose overall score was computed without it (interview_responses
\* None or an empty list) has confidence 70 + 10 * k / 4, without the +20.
C21_BonusOnlyWithInterview ==
    FullReport =>
        LET cs == result.component_scores
            k == Cardinality({c \in DOMAIN cs : cs[c].overall_score > 0})
            bonus == IF "interview_performance" \in DOMAIN cs
                     THEN 20 * 300 ELSE 0
        IN  4 * result.confidence_level
              = Min(4 * 100 * 300, 4 * (70 * 300 + bonus) + 10 * 300 * k)

-----------------------------------------------------------------------------
(* Claims about the component scorers (SpecCalls) *)

\* The calls of _assess_experience_relevance that have returned
ExperienceCalls ==
    IF fn = "_assess_experience_relevance" THEN DOMAIN ret ELSE {}

\* The years of call i, in tenths, and the range of its job level in years
YearsOfCall(i) ==
    args.calls[i].candidate_data.extracted_experience.total_years.tenths

RangeOfCall(i) ==
    LET jd == args.calls[i].job_description
        level == IF "experience_level" \in DOMAIN jd
                 THEN jd.experience_level ELSE "none"
    IN  CASE level = "entry" -> <<0, 2>>
          [] level = "junior" -> <<1, 3>>
          [] level = "senior" -> <<5, 12>>
          [] level = "executive" -> <<8, 20>>
          [] OTHER -> <<3, 7>>

YearsAlignmentOfCall(i) == ret[i].value.component_scores.years_alignment

\* C22: with (min, max) the range of the job level (entry 0-2, junior 1-3,
\* mid 3-7, senior 5-12, executive 8-20, any other level 3-7),
\* years_alignment is 100 for min <= years <= max,
\* max(70, 100 - 5 * (years - max)) for years > max, and 100 * years / min
\* for years < min (0 if min = 0); so it is at least 70 whenever
\* years >= min, and of two calls with 0 <= years1 <= years2 <= max the
\* second scores no lower.
C22_YearsAlignment ==
    /\ \A i \in ExperienceCalls :
          LET tenths == YearsOfCall(i)
              min_years == RangeOfCall(i)[1]
              max_years == RangeOfCall(i)[2]
              score == YearsAlignmentOfCall(i)
          IN  /\ ret[i].raised = "none"
              /\ (10 * min_years <= tenths /\ tenths <= 10 * max_years)
                    => score = 100 * 300
              /\ tenths > 10 * max_years
                    => score = Max(70 * 300,
                                   100 * 300 - 150 * (tenths - 10 * max_years))
              /\ (tenths < 10 * min_years /\ min_years > 0)
                    => 10 * min_years * score = tenths * 100 * 300
              /\ (tenths < 10 * min_years /\ min_years = 0) => score = 0
              /\ tenths >= 10 * min_years => score >= 70 * 300
    /\ \A i, j \in ExperienceCalls :
          (/\ 0 <= YearsOfCall(i)
           /\ YearsOfCall(i) <= YearsOfCall(j)
           /\ YearsOfCall(j) <= 10 * RangeOfCall(j)[2])
             => YearsAlignmentOfCall(i) <= YearsAlignmentOfCall(j)

\* A senior job: 2.5 years score 50, then 19 years score 70, the floor
\* (100 - 5 * 7 = 65 without it).
C22_Witness ==
    /\ fn = "_assess_experience_relevance"
    /\ returned
    /\ args.calls[1].job_description = [title |-> TEXT.software_engineer,
                                        experience_level |-> "senior"]
    /\ YearsOfCall(1) = 25
    /\ YearsAlignmentOfCall(1) = 50 * 300
    /\ YearsOfCall(2) = 190
    /\ YearsAlignmentOfCall(2) = 70 * 300

\* The calls of _calculate_role_relevance that have returned
RoleCalls == IF fn = "_calculate_role_relevance" THEN DOMAIN ret ELSE {}

\* The distinct lower-cased words of a text
WordsOf(text) == Elems(Split(Lower(text)))

\* C23: role_relevance is 50 when the candidate has no titles or the target
\* role is empty; otherwise it is the greatest, over the titles, of
\* 100 * (distinct lower-cased words shared by title and target role)
\* / (number of words of the target role); a call with one more title on a
\* non-empty list scores no lower; and the call returns a value, without a
\* division by zero, for every non-empty target role.
C23_RoleRelevance ==
    /\ \A i \in RoleCalls :
          LET job_titles == args.calls[i].job_titles
              target_role == args.calls[i].target_role
              words == Len(Split(Lower(target_role)))
          IN  /\ ret[i].raised = "none"
              /\ (job_titles = << >> \/ target_role = << >>)
                    => ret[i].value = 50 * 300
              /\ (job_titles # << >> /\ target_role # << >>)
                    => /\ \E k \in DOMAIN job_titles :
                             words * ret[i].value
                               = 100 * 300
                                   * Cardinality(WordsOf(job_titles[k])
                                                   \cap WordsOf(target_role))
                       /\ \A k \in DOMAIN job_titles :
                             words * ret[i].value
                               >= 100 * 300
                                    * Cardinality(WordsOf(job_titles[k])
                                                    \cap WordsOf(target_role))
    /\ \A i, j \in RoleCalls :
          (/\ i < j
           /\ args.calls[i].job_titles # << >>)
             => ret[i].value <= ret[j].value

\* The calls of _assess_interview_performance that have returned
InterviewCalls ==
    IF fn = "_assess_interview_performance" THEN DOMAIN ret ELSE {}

ResponsesOfCall(i) == args.calls[i].interview_responses

\* The evaluation score and the category of a response, by their defaults
ScoreOfResponse(response) ==
    IF "evaluation" \in DOMAIN response
    THEN response.evaluation.overall_score ELSE 0

CategoryOfResponse(response) ==
    IF "question" \in DOMAIN response
    THEN response.question.category ELSE "unknown"

\* The sum of the scores of the responses of l whose index is in S
RECURSIVE SumOver(_, _)
SumOver(l, S) ==
    IF S = {} THEN 0
    ELSE LET i == CHOOSE i \in S : TRUE
         IN  ScoreOfResponse(l[i]) + SumOver(l, S \ {i})

\* Two lists hold the same responses the same number of times.
IsPermutation(l1, l2) ==
    /\ Len(l1) = Len(l2)
    /\ \A x \in Elems(l1) \cup Elems(l2) :
          Cardinality({i \in DOMAIN l1 : l1[i] = x})
            = Cardinality({i \in DOMAIN l2 : l2[i] = x})

\* C24: the overall_score of the interview component is the arithmetic
\* mean of the responses' overall_scores (to the two decimals it is rounded
\* to), category_scores holds for each category that occurs the mean of
\* the scores of its responses, and two calls on lists that are
\* permutations of each other return the same overall_score and the same
\* category_scores.
C24_MeansOrderIndependent ==
    /\ \A i \in InterviewCalls :
          ResponsesOfCall(i) # << >> =>
             LET l == ResponsesOfCall(i)
                 value == ret[i].value
                 d == Len(l) * value.overall_score - SumOver(l, DOMAIN l)
                 Of(c) == {k \in DOMAIN l : CategoryOfResponse(l[k]) = c}
             IN  /\ 2 * d <= 3 * Len(l)
                 /\ -2 * d <= 3 * Len(l)
                 /\ DOMAIN value.category_scores
                       = {CategoryOfResponse(l[k]) : k \in DOMAIN l}
                 /\ \A c \in DOMAIN value.category_scores :
                       Cardinality(Of(c)) * value.category_scores[c]
                          = SumOver(l, Of(c))
    /\ \A i, j \in InterviewCalls :
          IsPermutation(ResponsesOfCall(i), ResponsesOfCall(j)) =>
             /\ ret[i].value.overall_score = ret[j].value.overall_score
             /\ ResponsesOfCall(i) # << >> =>
                   ret[i].value.category_scores = ret[j].value.category_scores

\* Technical 60, behavioral 85, technical 90, then the same responses with
\* the technical ones exchanged: mean 78.33, technical 75, behavioral 85
\* both times.
C24_Witness ==
    /\ fn = "_assess_interview_performance"
    /\ returned
    /\ Len(ResponsesOfCall(1)) = 3
    /\ ResponsesOfCall(1) # ResponsesOfCall(2)
    /\ ResponsesOfCall(1)[1] = ResponsesOfCall(2)[3]
    /\ ScoreOfResponse(ResponsesOfCall(1)[1]) = 60 * 300
    /\ ScoreOfResponse(ResponsesOfCall(1)[3]) = 90 * 300
    /\ ret[2].value.overall_score = 7833 * 3
    /\ ret[2].value.category_scores
          = [technical |-> 75 * 300, behavioral |-> 85 * 300]

-----------------------------------------------------------------------------
(* _generate_recommendations called on its own (SpecScore) *)

RecommendationsReturned ==
    /\ fn = "_generate_recommendations"
    /\ returned

\* The score of a component of the argument: that of its dict (0 when the
\* dict has none) or the bare number
ArgumentScore(c) ==
    LET score_data == args.component_scores[c]
    IN  IF "num" \in DOMAIN score_data THEN score_data.num
        ELSE IF "overall_score" \in DOMAIN score_data
             THEN score_data.overall_score
        ELSE 0

PlanText ==
    [skill_match |-> "Technical skills training in missing areas",
     interview_performance |->
         "Communication and presentation skills development",
     experience_relevance |->
         "Mentoring and guidance in role-specific responsibilities"]

\* C25: development_plan holds exactly one templated entry for each of
\* skill_match, interview_performance and experience_relevance that is
\* present with a score under 70, and nothing else: no entry for a
\* component at 70 or above, none for resume_analysis or cultural_fit
\* whatever their scores; so it has at most 3 entries.
C25_DevelopmentPlan ==
    RecommendationsReturned =>
        LET weak == {c \in DOMAIN PlanText \cap DOMAIN args.component_scores :
                        ArgumentScore(c) < 70 * 300}
            plan == ret.development_plan
        IN  /\ Elems(plan) = {PlanText[c] : c \in weak}
            /\ Len(plan) = Cardinality(weak)
            /\ Len(plan) <= 3

\* All five components under 70: three entries.
C25_Witness ==
    /\ RecommendationsReturned
    /\ DOMAIN args.component_scores = ComponentNames
    /\ \A c \in ComponentNames : ArgumentScore(c) = 70 * 300 - 3
    /\ Len(ret.development_plan) = 3

-----------------------------------------------------------------------------
(* The recommendation bundle and the final recommendation (Spec) *)

\* The hiring_decision and the next_steps that name each tier
DecisionText ==
    [strong_hire |-> "Strong Hire - Excellent candidate with minimal risk",
     hire |-> "Hire - Good candidate with manageable development needs",
     maybe |-> "Maybe - Candidate shows potential but has significant gaps",
     no_hire |-> "No Hire - Candidate does not meet minimum requirements"]

StepsText ==
    [strong_hire |-> <<"Proceed with offer preparation",
                       "Conduct reference checks",
                       "Prepare comprehensive onboarding plan">>,
     hire |-> <<"Conduct final interview round",
                "Verify key skills through practical assessment",
                "Prepare targeted development plan">>,
     maybe |-> <<"Conduct additional technical assessment",
                 "Interview with senior team members",
                 "Evaluate cultural fit more thoroughly">>,
     no_hire |-> <<"Provide constructive feedback",
                   "Consider for future opportunities if applicable",
                   "Document assessment for learning purposes">>]

\* C26: in every report but the fallback, recommendations.hiring_decision
\* and recommendations.next_steps are those of the tier that is the
\* report's hiring_recommendation, with two or more high-severity risks as
\* well as without.
C26_DecisionIsFinalTier ==
    FullReport =>
        /\ result.recommendations.hiring_decision
              = DecisionText[result.hiring_recommendation]
        /\ result.recommendations.next_steps
              = StepsText[result.hiring_recommendation]

-----------------------------------------------------------------------------
(* Claims about the final recommendation over several calls (SpecCalls) *)

\* The calls of _determine_hiring_recommendation that have returned
HiringCalls ==
    IF fn = "_determine_hiring_recommendation" THEN DOMAIN ret ELSE {}

\* l1 is the beginning of l2: l2 is l1 with risks added.
IsPrefix(l1, l2) == Len(l1) <= Len(l2) /\ SubSeq(l2, 1, Len(l1)) = l1

\* C27: with the order no_hire < maybe < hire < strong_hire, of two calls
\* with the same risk list the one with the higher overall_score returns no
\* lower tier, and of two calls with the same overall_score the one whose
\* risk list has risks added returns no higher tier.
C27_Monotone ==
    \A i, j \in HiringCalls :
        /\ (/\ args.calls[i].risk_factors = args.calls[j].risk_factors
            /\ args.calls[i].overall_score <= args.calls[j].overall_score)
              => TierRank(ret[i].value) <= TierRank(ret[j].value)
        /\ (/\ args.calls[i].overall_score = args.calls[j].overall_score
            /\ IsPrefix(args.calls[i].risk_factors, args.calls[j].risk_factors))
              => TierRank(ret[j].value) <= TierRank(ret[i].value)

\* A score of 85 with one high risk is strong_hire; with two more high
\* risks added it is hire.
C27_Witness ==
    /\ fn = "_determine_hiring_recommendation"
    /\ returned
    /\ args.calls[1].overall_score = 85 * 300
    /\ args.calls[2].overall_score = 85 * 300
    /\ Len(args.calls[1].risk_factors) = 1
    /\ Len(args.calls[2].risk_factors) = 3
    /\ \A k \in 1..3 : args.calls[2].risk_factors[k].severity = "high"
    /\ ret[1].value = "strong_hire"
    /\ ret[2].value = "hire"

-----------------------------------------------------------------------------
(* _calculate_overall_score as a weighted mean (SpecScore) *)

\* The weighted components that are in the argument
WeightedPresent ==
    {"resume_analysis", "skill_match", "interview_performance",
     "experience_relevance"} \cap DOMAIN args.component_scores

\* C28: when at least one of the four weighted components is present the
\* overall score lies between the least and the greatest of their scores,
\* to within the rounding to two decimals (half a hundredth); when none is
\* present it is 0.
C28_ConvexCombination ==
    OverallReturned =>
        IF WeightedPresent = {} THEN ret = 0
        ELSE /\ \E c \in WeightedPresent : 2 * (ArgumentScore(c) - ret) <= 3
             /\ \E c \in WeightedPresent : 2 * (ret - ArgumentScore(c)) <= 3

\* Resume 60 and skills 100, a cultural fit of 0 that has no weight:
\* (0.30 * 60 + 0.25 * 100) / 0.55 = 78.18.
C28_Witness ==
    /\ OverallReturned
    /\ args.component_scores
          = [resume_analysis |-> [overall_score |-> Pts(60)],
             skill_match |-> [overall_score |-> Pts(100)],
             cultural_fit |-> [overall_score |-> Pts(0)]]
    /\ ret = 7818 * 3

-----------------------------------------------------------------------------
(* Claims about the interview session (SpecSession) *)

SessionStarted == "token-1" \in DOMAIN db.interview_sessions

\* The row of the session
TheSession == db.interview_sessions["token-1"]

\* The stored responses are one for each question index 0..total_questions-1.
AllAnsweredOnce(session) ==
    /\ Len(session.responses_data) = session.total_questions
    /\ \A q \in 0..(session.total_questions - 1) :
          Cardinality({i \in DOMAIN session.responses_data :
                          session.responses_data[i].question_id = q}) = 1

\* C29: after every operation on a session, the session is completed only
\* if its stored responses are exactly one for each question index
\* 0..total_questions-1; the number of stored responses does not exceed
\* total_questions; and no operation lowers current_question_index.
C29_CompletedMeansAllAnswered ==
    [][SessionStarted' =>
          /\ TheSession'.status = "completed" => AllAnsweredOnce(TheSession')
          /\ Len(TheSession'.responses_data) <= TheSession'.total_questions
          /\ SessionStarted =>
                TheSession'.current_question_index
                   >= TheSession.current_question_index]_vars

\* C30: the status of a session changes only from active to paused (by
\* pause), from paused to active (by resume, not after expires_at), from
\* active to completed (by an answer that takes current_question_index to
\* total_questions) and from active or paused to expired (by an operation
\* after expires_at); a completed or expired session keeps its status
\* under every operation at any time, and get_interview_results succeeds
\* for a session whenever it has been completed.
C30_Lifecycle ==
    [][SessionStarted =>
          LET old == TheSession.status
              new == TheSession'.status
              late == utcnow > TheSession.expires_at
          IN  /\ new # old =>
                   \/ /\ old = "active"
                      /\ new = "paused"
                      /\ fn' = "pause_interview_session"
                   \/ /\ old = "paused"
                      /\ new = "active"
                      /\ fn' = "resume_interview_session"
                      /\ ~late
                   \/ /\ old = "active"
                      /\ new = "completed"
                      /\ fn' = "submit_answer"
                      /\ TheSession'.current_question_index
                            >= TheSession.total_questions
                   \/ /\ old \in {"active", "paused"}
                      /\ new = "expired"
                      /\ late
              /\ (/\ ~IsNone(TheSession.completed_at)
                  /\ fn' = "get_interview_results"
                  /\ args'.session_token = "token-1")
                    => ret'.status_code = 200]_vars

=============================================================================
